---- MODULE Spec2Model ----
(***************************************************************************)
(* Allocation engine of Plannr (AMCBDG_SQL.py): the per-order loop of      *)
(* process_single_scenario, the shortage resolver, the sorting strategies  *)
(* and the min/max strategy search of load_and_process_database.           *)
(***************************************************************************)
EXTENDS Integers, Sequences, FiniteSets, TLC

\* ---------------------------------------------------------------- bounds
MaxQty == 1        \* largest stock, committed, demand and required quantity drawn
MaxBomRows == 2    \* rows of planned demand per shop order
MaxPOs == 1        \* purchase order lines in df_pos during a run
MaxOrders == 2     \* orders processed by one run of the engine
MaxDemandRows == 3 \* shop orders in the demand relation of a strategy search
MaxSupply == 3     \* purchase order lines in df_pos when the resolver is examined
MaxMetric == 2     \* largest metric value and largest default handed to safe_metric
MaxWorkers == 2    \* ProcessingWorker threads created by one window
MaxTrackerCalls == 3 \* tracker calls made before a scenario starts

\* ---------------------------------------------------------------- values
Parts == {"A", "B"}
NoneVal == "<None>"                 \* Python None (part when the cell is NA)
Now == 1                            \* datetime.now() on the date axis 0..Now


VARIABLES
    stock,                 \* dict PART_NO -> summed Available Qty
    committed_components,  \* dict component -> committed quantity
    df_pos,                \* purchase order lines, ascending promised date
    used_components,       \* dict component -> committed + allocated by this run
    results,               \* Status column of the result list of this run
    row,                   \* the order read by the current loop iteration
    result,                \* the record appended by the current loop iteration
    bom,                   \* planned-demand rows looked up by the current iteration
    released,              \* part -> quantity required by the orders Released so far
    used_before,           \* used_components as it stood when the current iteration began
    pc,                    \* "row": at the top of a loop iteration; "appended": at its end
    labor_standards,       \* dict PART_NO -> Hours per Unit
    df_main,               \* the demand relation as load_demand_data returns it
    all_strategy_results,  \* one scenario result per sorting strategy evaluated
    scenarios,             \* the scenarios list of load_and_process_database
    planned_demand,        \* planned component demand rows of all shop orders
    struct,                \* Structure sheet of the archived workbook engine (parent, component, QpA)
    df_stock,              \* StockTally sheet of the archived workbook engine, as a dict
    columns,               \* the columns of the demand relation
    error,                 \* the exception that ended the processing, if any
    call,                  \* arguments of the helper call under examination
    ret,                   \* what that call returned
    processing_worker,     \* PlanSnapMainWindow.processing_worker: 0 (None) or a worker
    workers,               \* the ProcessingWorker threads created so far
    process_btn,           \* whether the process button is enabled
    events,                \* terminal signals queued for the main thread
    last_click,            \* what the last call of start_processing did
    performance_tracker,   \* the global PerformanceTracker object
    clock,                 \* time.time()
    tracker_hist           \* the last tracker call: arguments and the object before it

engineVars == <<used_components, results, row, result, bom, released, used_before>>
inputVars == <<stock, committed_components, df_pos, labor_standards, df_main, planned_demand,
               struct, df_stock, columns>>
searchVars == <<all_strategy_results, scenarios>>
auxVars == <<error, call, ret>>
trackerVars == <<performance_tracker, clock, tracker_hist>>
appVars == <<processing_worker, workers, process_btn, events, last_click, trackerVars>>
vars == <<inputVars, engineVars, searchVars, auxVars, appVars, pc>>

\* required_columns of the Demand table
required_columns == <<"SO No", "Part No", "Planner", "Start Date", "Rev Qty Due">>

\* mutant: only the first missing column is reported
missing_columns_first(cols) ==
    LET m == SelectSeq(required_columns, LAMBDA col : col \notin cols)
    IN IF m = <<>> THEN <<>> ELSE <<m[1]>>

\* missing_columns = [col for col in required_columns if col not in df_main.columns]
missing_columns(cols) == SelectSeq(required_columns, LAMBDA col : col \notin cols)

NoError == [raised |-> FALSE, type |-> "", missing |-> <<>>]
NoRet == [value |-> 0, metrics |-> <<>>]

\* df_main has every required column, nothing has been raised, no helper call is examined
InitAux ==
    /\ columns = {required_columns[i] : i \in 1..Len(required_columns)}
    /\ error = NoError
    /\ call = [fn |-> "", metrics |-> <<>>, key |-> "", default |-> 0, given |-> FALSE]
    /\ ret = NoRet

NoTime == -1                        \* None in phase_start_time

\* PerformanceTracker.__init__
NewTracker == [phases |-> <<>>, current_phase |-> NoneVal, phase_start_time |-> NoTime,
               memory_usage |-> <<>>]

\* PlanSnapMainWindow.__init__: no worker yet, the process button enabled;
\* performance_tracker = PerformanceTracker()
InitApp ==
    /\ processing_worker = 0
    /\ workers = <<>>
    /\ process_btn = TRUE
    /\ events = <<>>
    /\ last_click = "none"
    /\ performance_tracker = NewTracker
    /\ clock = 1
    /\ tracker_hist = [op |-> "", name |-> "", before |-> NewTracker, calls |-> 0, pos |-> 0,
                       base |-> <<>>]

\* ------------------------------------------------------- Python dict helpers
\* d.get(k, default)
Get(d, k, default) == IF k \in DOMAIN d THEN d[k] ELSE default

\* d[k] = v
Put(d, k, v) == [x \in (DOMAIN d) \cup {k} |-> IF x = k THEN v ELSE d[x]]

Abs(n) == IF n < 0 THEN -n ELSE n

\* ------------------------------------------------------- shortage resolver
\* df_pos[(Part Number == comp_part) & (Promised Due Date >= now)]
future_pos(pos, comp_part) ==
    SelectSeq(pos, LAMBDA po : po.PartNumber = comp_part /\ po.Due >= Now)

\* mutant: the loop has no break, the last sufficient line is kept
RECURSIVE po_match_last(_, _)
po_match_last(fpos, shortage) ==
    IF fpos = <<>> THEN [found |-> FALSE, PONumber |-> 0, Due |-> 0]
    ELSE LET later == po_match_last(Tail(fpos), shortage)
         IN IF later.found THEN later
            ELSE IF Head(fpos).QtyDue >= shortage
                 THEN [found |-> TRUE, PONumber |-> Head(fpos).PONumber, Due |-> Head(fpos).Due]
                 ELSE later

\* for po_row in future_pos: if po_qty >= shortage: po_match = po_row; break
RECURSIVE po_match(_, _)
po_match(fpos, shortage) ==
    IF fpos = <<>> THEN [found |-> FALSE, PONumber |-> 0, Due |-> 0]
    ELSE IF Head(fpos).QtyDue >= shortage
         THEN [found |-> TRUE, PONumber |-> Head(fpos).PONumber, Due |-> Head(fpos).Due]
         ELSE po_match(Tail(fpos), shortage)

\* ------------------------------------------------------- feasibility pass
NoDetail == [kind |-> "none", part |-> "", need |-> 0, have |-> 0, short |-> 0, po |-> 0, due |-> 0]
NoReq == [part |-> "", required |-> 0]

\* mutant: the except branch forgets to clear all_components_available
CheckComponent_swallow(comp, stk, used, pos) ==
    IF comp.QtyKind = "bad"
    THEN \* int(...) raises: the except branch
         [raised |-> TRUE, sufficient |-> TRUE, req |-> NoReq,
          detail |-> [NoDetail EXCEPT !.kind = "error"]]
    ELSE
      LET comp_part == comp.Component
          required_qty == IF comp.QtyKind = "nan" THEN 0 ELSE comp.Qty
          total_used == Get(used, comp_part, 0)
          true_available == Get(stk, comp_part, 0) - total_used
          available_after_usage == true_available - required_qty
          will_be_sufficient == true_available >= required_qty
          shortage == Abs(available_after_usage)
          m == po_match(future_pos(pos, comp_part), shortage)
      IN [raised |-> FALSE, sufficient |-> will_be_sufficient,
          req |-> [part |-> comp_part, required |-> required_qty],
          detail |->
            IF will_be_sufficient THEN NoDetail
            ELSE IF m.found
                 THEN [NoDetail EXCEPT !.kind = "po", !.part = comp_part,
                                       !.short = shortage, !.po = m.PONumber, !.due = m.Due]
                 ELSE [NoDetail EXCEPT !.kind = "need", !.part = comp_part,
                                       !.need = required_qty, !.have = true_available,
                                       !.short = shortage]]

\* one iteration of "for _, comp in bom.iterrows()" (body of the try)
CheckComponent(comp, stk, used, pos) ==
    IF comp.QtyKind = "bad"
    THEN \* int(...) raises: the except branch
         [raised |-> TRUE, sufficient |-> FALSE, req |-> NoReq,
          detail |-> [NoDetail EXCEPT !.kind = "error"]]
    ELSE
      LET comp_part == comp.Component
          required_qty == IF comp.QtyKind = "nan" THEN 0 ELSE comp.Qty
          total_used == Get(used, comp_part, 0)
          true_available == Get(stk, comp_part, 0) - total_used
          available_after_usage == true_available - required_qty
          will_be_sufficient == true_available >= required_qty
          shortage == Abs(available_after_usage)
          m == po_match(future_pos(pos, comp_part), shortage)
      IN [raised |-> FALSE, sufficient |-> will_be_sufficient,
          req |-> [part |-> comp_part, required |-> required_qty],
          detail |->
            IF will_be_sufficient THEN NoDetail
            ELSE IF m.found
                 THEN [NoDetail EXCEPT !.kind = "po", !.part = comp_part,
                                       !.short = shortage, !.po = m.PONumber, !.due = m.Due]
                 ELSE [NoDetail EXCEPT !.kind = "need", !.part = comp_part,
                                       !.need = required_qty, !.have = true_available,
                                       !.short = shortage]]

Checks(b, stk, used, pos) == [i \in 1..Len(b) |-> CheckComponent(b[i], stk, used, pos)]

\* component_requirements: one entry per row that did not raise
component_requirements(chk) ==
    LET ok == SelectSeq(chk, LAMBDA c : ~c.raised)
    IN [i \in 1..Len(ok) |-> ok[i].req]

\* mutant: the except branch appends no diagnostic entry
bom_shortage_details_noerror(chk) ==
    LET bad == SelectSeq(chk, LAMBDA c : c.detail.kind \in {"po", "need"})
    IN [i \in 1..Len(bad) |-> bad[i].detail]

\* shortage_details of the BOM branch: one entry per failing or raising row
bom_shortage_details(chk) ==
    LET bad == SelectSeq(chk, LAMBDA c : c.detail.kind # "none")
    IN [i \in 1..Len(bad) |-> bad[i].detail]

all_components_available(chk) == \A i \in 1..Len(chk) : chk[i].sufficient

\* components_needed[comp_part] = required_qty (later rows overwrite earlier ones)
RECURSIVE components_needed(_)
components_needed(reqs) ==
    IF reqs = <<>> THEN <<>>
    ELSE LET r == reqs[Len(reqs)]
             d == components_needed(SubSeq(reqs, 1, Len(reqs) - 1))
         IN Put(d, r.part, r.required)

\* mutant: the commit loop stores the required quantity instead of adding it
RECURSIVE Allocate_overwrite(_, _)
Allocate_overwrite(reqs, used) ==
    IF reqs = <<>> THEN used
    ELSE Allocate_overwrite(Tail(reqs), Put(used, Head(reqs).part, Head(reqs).required))

\* mutant: the commit loop takes the required quantity off the used quantity
RECURSIVE Allocate_subtract(_, _)
Allocate_subtract(reqs, used) ==
    IF reqs = <<>> THEN used
    ELSE Allocate_subtract(Tail(reqs),
                  Put(used, Head(reqs).part, Get(used, Head(reqs).part, 0) - Head(reqs).required))

\* for req in component_requirements: used_components[part] = used.get(part, 0) + required
RECURSIVE Allocate(_, _)
Allocate(reqs, used) ==
    IF reqs = <<>> THEN used
    ELSE Allocate(Tail(reqs),
                  Put(used, Head(reqs).part, Get(used, Head(reqs).part, 0) + Head(reqs).required))

\* ------------------------------------------------------- one loop iteration
\* demand_qty = row["Demand"] if notna and > 0 else 0
demand_qty(r) == IF r.Demand > 0 THEN r.Demand ELSE 0

\* mutant: the 'nan' test is missing from the skip condition
IsSkipped_noNan(r) == r.Part = NoneVal \/ demand_qty(r) <= 0

\* if part is None or part == "nan" or demand_qty <= 0
IsSkipped(r) == r.Part = NoneVal \/ r.Part = "nan" \/ demand_qty(r) <= 0

\* "; ".join(shortage_parts_only) if shortage_parts_only else "-"
RECURSIVE shortages_text(_)
shortages_text(parts) ==
    IF parts = <<>> THEN "-"
    ELSE IF Len(parts) = 1 THEN parts[1]
    ELSE parts[1] \o "; " \o shortages_text(Tail(parts))

\* the part number extracted from each shortage detail string
clean_shortages(details) ==
    [i \in 1..Len(details) |->
        IF details[i].kind \in {"po", "need"} THEN details[i].part
        ELSE "Component processing error"]

\* components_info
components_info(details, needed) ==
    [text |-> IF details # <<>> THEN "shortages"
              ELSE IF DOMAIN needed # {} THEN "needed" ELSE "-",
     details |-> details,
     needed |-> IF details # <<>> THEN <<>> ELSE needed]

SkippedResult(r) ==
    [SO |-> r.SO,
     Part |-> IF r.Part = NoneVal THEN "MISSING" ELSE r.Part,
     Demand |-> demand_qty(r),
     Hours |-> 0,
     Status |-> "Skipped",
     Shortages |-> <<>>,
     Components |-> [text |-> "Missing part number or zero demand",
                     details |-> <<>>, needed |-> <<>>]]

BuildResult(r, labor, releasable, details, needed) ==
    [SO |-> r.SO,
     Part |-> r.Part,
     Demand |-> demand_qty(r),
     Hours |-> Get(labor, r.Part, 0) * demand_qty(r),
     Status |-> IF releasable THEN "Release" ELSE "Hold",
     Shortages |-> clean_shortages(details),
     Components |-> components_info(details, needed)]

\* mutant: each component is allocated as soon as it passes its own check
BomBranch_partial(r, b, stk, used, pos, labor) ==
    LET chk == Checks(b, stk, used, pos)
        reqs == component_requirements(chk)
        passed == SelectSeq(chk, LAMBDA c : c.sufficient)
        avail == all_components_available(chk)
    IN [result |-> BuildResult(r, labor, avail, bom_shortage_details(chk), components_needed(reqs)),
        used |-> Allocate([i \in 1..Len(passed) |-> passed[i].req], used)]

\* if len(bom) > 0: ALL-OR-NOTHING allocation
BomBranch(r, b, stk, used, pos, labor) ==
    LET chk == Checks(b, stk, used, pos)
        reqs == component_requirements(chk)
        avail == all_components_available(chk)
    IN [result |-> BuildResult(r, labor, avail, bom_shortage_details(chk), components_needed(reqs)),
        used |-> IF avail THEN Allocate(reqs, used) ELSE used]

\* mutant: a releasable raw order does not record what it uses
RawBranch_nocommit(r, stk, used, labor) ==
    LET part == r.Part
        true_available == Get(stk, part, 0) - Get(used, part, 0)
        available_after_usage == true_available - demand_qty(r)
    IN IF true_available >= demand_qty(r)
       THEN [result |-> BuildResult(r, labor, TRUE, <<>>, <<>>), used |-> used]
       ELSE [result |-> BuildResult(r, labor, FALSE,
                          <<[NoDetail EXCEPT !.kind = "need", !.part = part,
                                             !.need = demand_qty(r), !.have = true_available,
                                             !.short = Abs(available_after_usage)]>>, <<>>),
             used |-> used]

\* mutant: an order is released only when stock is left over after it
RawBranch_strict(r, stk, used, labor) ==
    LET part == r.Part
        total_used == Get(used, part, 0)
        true_available == Get(stk, part, 0) - total_used
        available_after_usage == true_available - demand_qty(r)
    IN IF true_available > demand_qty(r)
       THEN [result |-> BuildResult(r, labor, TRUE, <<>>, <<>>),
             used |-> Put(used, part, Get(used, part, 0) + demand_qty(r))]
       ELSE [result |-> BuildResult(r, labor, FALSE,
                          <<[NoDetail EXCEPT !.kind = "need", !.part = part,
                                             !.need = demand_qty(r), !.have = true_available,
                                             !.short = Abs(available_after_usage)]>>, <<>>),
             used |-> used]

\* elif len(bom) == 0: raw material / purchased part
RawBranch(r, stk, used, labor) ==
    LET part == r.Part
        total_used == Get(used, part, 0)
        true_available == Get(stk, part, 0) - total_used
        available_after_usage == true_available - demand_qty(r)
    IN IF true_available >= demand_qty(r)
       THEN [result |-> BuildResult(r, labor, TRUE, <<>>, <<>>),
             used |-> Put(used, part, Get(used, part, 0) + demand_qty(r))]
       ELSE [result |-> BuildResult(r, labor, FALSE,
                          <<[NoDetail EXCEPT !.kind = "need", !.part = part,
                                             !.need = demand_qty(r), !.have = true_available,
                                             !.short = Abs(available_after_usage)]>>, <<>>),
             used |-> used]

\* body of "for _, row in filtered_df_main.iterrows()"
ProcessRow(r, b, stk, used, pos, labor) ==
    IF IsSkipped(r) THEN [result |-> SkippedResult(r), used |-> used]
    ELSE IF Len(b) > 0 THEN BomBranch(r, b, stk, used, pos, labor)
    ELSE RawBranch(r, stk, used, labor)

\* ------------------------------------------------------- the Qt6 copy of the engine
\* ProcessingWorker.process_single_scenario of AMCBDG_SQL_Qt6.py, loop body

\* mutant: the Qt6 copy decides with the clamped quantity max(0, true_available)
Qt6_CheckComponent_clamped(comp, stk, used, pos) ==
    IF comp.QtyKind = "bad"
    THEN [raised |-> TRUE, sufficient |-> FALSE, req |-> NoReq,
          detail |-> [NoDetail EXCEPT !.kind = "error"]]
    ELSE
      LET comp_part == comp.Component
          required_qty == IF comp.QtyKind = "nan" THEN 0 ELSE comp.Qty
          true_available == Get(stk, comp_part, 0) - Get(used, comp_part, 0)
          available == IF true_available > 0 THEN true_available ELSE 0
          shortage == Abs(true_available - required_qty)
          m == po_match(future_pos(pos, comp_part), shortage)
      IN [raised |-> FALSE, sufficient |-> available >= required_qty,
          req |-> [part |-> comp_part, required |-> required_qty],
          detail |->
            IF available >= required_qty THEN NoDetail
            ELSE IF m.found
                 THEN [NoDetail EXCEPT !.kind = "po", !.part = comp_part,
                                       !.short = shortage, !.po = m.PONumber, !.due = m.Due]
                 ELSE [NoDetail EXCEPT !.kind = "need", !.part = comp_part,
                                       !.need = required_qty, !.have = true_available,
                                       !.short = shortage]]

\* one iteration of "for _, comp in bom.iterrows()" (lines 858-900)
Qt6_CheckComponent(comp, stk, used, pos) ==
    IF comp.QtyKind = "bad"
    THEN [raised |-> TRUE, sufficient |-> FALSE, req |-> NoReq,
          detail |-> [NoDetail EXCEPT !.kind = "error"]]
    ELSE
      LET comp_part == comp.Component
          required_qty == IF comp.QtyKind = "nan" THEN 0 ELSE comp.Qty
          total_used == Get(used, comp_part, 0)
          true_available == Get(stk, comp_part, 0) - total_used
          available_after_usage == true_available - required_qty
          will_be_sufficient == true_available >= required_qty
          shortage == Abs(available_after_usage)
          m == po_match(future_pos(pos, comp_part), shortage)
      IN [raised |-> FALSE, sufficient |-> will_be_sufficient,
          req |-> [part |-> comp_part, required |-> required_qty],
          detail |->
            IF will_be_sufficient THEN NoDetail
            ELSE IF m.found
                 THEN [NoDetail EXCEPT !.kind = "po", !.part = comp_part,
                                       !.short = shortage, !.po = m.PONumber, !.due = m.Due]
                 ELSE [NoDetail EXCEPT !.kind = "need", !.part = comp_part,
                                       !.need = required_qty, !.have = true_available,
                                       !.short = shortage]]

\* if len(bom) > 0 (lines 853-910)
Qt6_BomBranch(r, b, stk, used, pos, labor) ==
    LET chk == [i \in 1..Len(b) |-> Qt6_CheckComponent(b[i], stk, used, pos)]
        ok == SelectSeq(chk, LAMBDA c : ~c.raised)
        reqs == [i \in 1..Len(ok) |-> ok[i].req]
        bad == SelectSeq(chk, LAMBDA c : c.detail.kind # "none")
        details == [i \in 1..Len(bad) |-> bad[i].detail]
        avail == \A i \in 1..Len(chk) : chk[i].sufficient
    IN [result |-> BuildResult(r, labor, avail, details, components_needed(reqs)),
        used |-> IF avail THEN Allocate(reqs, used) ELSE used]

\* elif len(bom) == 0 (lines 912-929)
Qt6_RawBranch(r, stk, used, labor) ==
    LET part == r.Part
        true_available == Get(stk, part, 0) - Get(used, part, 0)
        shortage == Abs(true_available - demand_qty(r))
    IN IF true_available >= demand_qty(r)
       THEN [result |-> BuildResult(r, labor, TRUE, <<>>, <<>>),
             used |-> Put(used, part, Get(used, part, 0) + demand_qty(r))]
       ELSE [result |-> BuildResult(r, labor, FALSE,
                          <<[NoDetail EXCEPT !.kind = "need", !.part = part,
                                             !.need = demand_qty(r), !.have = true_available,
                                             !.short = shortage]>>, <<>>),
             used |-> used]

\* body of "for _, row in filtered_df_main.iterrows()" (lines 777-961)
Qt6_ProcessRow(r, b, stk, used, pos, labor) ==
    IF r.Part = NoneVal \/ r.Part = "nan" \/ demand_qty(r) <= 0
    THEN [result |-> SkippedResult(r), used |-> used]
    ELSE IF Len(b) > 0 THEN Qt6_BomBranch(r, b, stk, used, pos, labor)
    ELSE Qt6_RawBranch(r, stk, used, labor)

\* ------------------------------------------------------- input spaces
Dicts(keys, vals) == UNION {[S -> vals] : S \in SUBSET keys}

SeqsUpTo(S, n) == UNION {[1..k -> S] : k \in 0..n}

\* purchase order lines as the loader returns them: ORDER BY promised date
PoTablesUpTo(n) ==
    {[i \in 1..Len(s) |-> [PONumber |-> i, PartNumber |-> s[i].PartNumber,
                           QtyDue |-> s[i].QtyDue, Due |-> s[i].Due]] :
        s \in {t \in SeqsUpTo(([PartNumber : Parts, QtyDue : 1..(2 * MaxQty), Due : 0..Now]), n) :
                 \A i \in 1..Len(t) - 1 : t[i].Due <= t[i + 1].Due}}

Rows == [Part : (Parts \cup {"nan", NoneVal}), Demand : (-1)..MaxQty]

SkippedRows == {r \in Rows : r.Part = NoneVal \/ r.Part = "nan" \/ r.Demand <= 0}

Boms ==
    SeqsUpTo([Component : Parts, QtyKind : {"num"}, Qty : 1..MaxQty]
                \cup [Component : Parts, QtyKind : {"nan", "bad"}, Qty : {0}],
             MaxBomRows) \ {<<>>}

WithSO(r, so) == [SO |-> so, Part |-> r.Part, Demand |-> r.Demand]

NoRow == [SO |-> 0, Part |-> "", Demand |-> 0]

NoResult == [SO |-> 0, Part |-> "", Demand |-> 0, Hours |-> 0, Status |-> "",
             Shortages |-> <<>>,
             Components |-> [text |-> "", details |-> <<>>, needed |-> <<>>]]

\* quantity of part p required by the rows of a BOM (NA counts 0)
RECURSIVE RequiredOf(_, _)
RequiredOf(b, p) ==
    IF b = <<>> THEN 0
    ELSE (IF Head(b).Component = p /\ Head(b).QtyKind = "num" THEN Head(b).Qty ELSE 0)
         + RequiredOf(Tail(b), p)

\* ------------------------------------------------------- summary counts
\* len(df_results[df_results['Status'] == status])
RECURSIVE CountStatus(_, _)
CountStatus(statuses, status) ==
    IF statuses = <<>> THEN 0
    ELSE (IF Head(statuses) = status THEN 1 ELSE 0) + CountStatus(Tail(statuses), status)

\* total_orders, releasable_count, held_count and skipped_count of the metrics
count_metrics(statuses) ==
    [total_orders |-> Len(statuses),
     releasable_count |-> CountStatus(statuses, "Release"),
     held_count |-> Len(statuses) - CountStatus(statuses, "Release"),
     skipped_count |-> CountStatus(statuses, "Skipped")]

\* ------------------------------------------------------- one run of the engine
Init ==
    /\ stock \in Dicts(Parts, 1..(MaxQty + 1))
    /\ committed_components \in Dicts(Parts, 1..MaxQty)
    /\ df_pos \in (PoTablesUpTo(MaxPOs))
    /\ used_components = committed_components
    /\ results = <<>>
    /\ row = NoRow
    /\ result = NoResult
    /\ bom = <<>>
    /\ released = [p \in Parts |-> 0]
    /\ used_before = committed_components
    /\ pc = "row"
    /\ labor_standards = [p \in Parts |-> 1]
    /\ df_main = <<>>
    /\ all_strategy_results = <<>>
    /\ scenarios = <<>>
    /\ planned_demand = <<>>
    /\ struct = <<>>
    /\ df_stock = <<>>
    /\ InitAux
    /\ InitApp

\* mutant: the skip branch continues without appending a record
ProcessSkipped_norecord ==
    /\ pc = "row"
    /\ pc' = "appended"
    /\ \E r \in SkippedRows :
         /\ row' = WithSO(r, Len(results) + 1)
         /\ result' = SkippedResult(WithSO(r, Len(results) + 1))
    /\ used_before' = used_components
    /\ UNCHANGED <<appVars, inputVars, searchVars, auxVars, bom, released, results, used_components>>

\* an iteration that ends at the "continue" of the skip branch
ProcessSkipped ==
    /\ pc = "row"
    /\ pc' = "appended"
    /\ \E r \in SkippedRows :
       \E out \in {ProcessRow(WithSO(r, Len(results) + 1), <<>>, stock, used_components, df_pos,
                            labor_standards)} :
         /\ row' = WithSO(r, Len(results) + 1)
         /\ result' = out.result
         /\ results' = Append(results, out.result.Status)
         /\ used_components' = out.used
    /\ used_before' = used_components
    /\ UNCHANGED <<appVars, inputVars, searchVars, auxVars, bom, released>>

\* an iteration for an order that has planned component demand
ProcessBom ==
    /\ pc = "row"
    /\ pc' = "appended"
    /\ \E r \in Rows \ SkippedRows, b \in Boms :
       \E out \in {ProcessRow(WithSO(r, Len(results) + 1), b, stock, used_components, df_pos,
                            labor_standards)} :
         /\ row' = WithSO(r, Len(results) + 1)
         /\ result' = out.result
         /\ results' = Append(results, out.result.Status)
         /\ used_components' = out.used
         /\ bom' = b
         /\ released' = IF out.result.Status = "Release"
                        THEN [p \in Parts |-> released[p] + RequiredOf(b, p)]
                        ELSE released
    /\ used_before' = used_components
    /\ UNCHANGED <<appVars, inputVars, searchVars, auxVars>>

\* an iteration for an order without planned component demand
ProcessRaw ==
    /\ pc = "row"
    /\ pc' = "appended"
    /\ \E r \in Rows \ SkippedRows :
       \E out \in {ProcessRow(WithSO(r, Len(results) + 1), <<>>, stock, used_components, df_pos,
                            labor_standards)} :
         /\ row' = WithSO(r, Len(results) + 1)
         /\ result' = out.result
         /\ results' = Append(results, out.result.Status)
         /\ used_components' = out.used
         /\ bom' = <<>>
         /\ released' = IF out.result.Status = "Release"
                        THEN [released EXCEPT ![r.Part] = @ + r.Demand]
                        ELSE released
    /\ used_before' = used_components
    /\ UNCHANGED <<appVars, inputVars, searchVars, auxVars>>

\* the for statement takes the next row: the locals of the finished iteration are dead
NextRow ==
    /\ pc = "appended"
    /\ Len(results) < MaxOrders
    /\ pc' = "row"
    /\ row' = NoRow
    /\ result' = NoResult
    /\ bom' = <<>>
    /\ used_before' = used_components
    /\ UNCHANGED <<appVars, inputVars, searchVars, auxVars, used_components, results, released>>

\* the frame is exhausted: "Calculate summary metrics", and the scenario is returned
Summarise ==
    /\ pc = "appended"
    /\ scenarios' = <<[metrics |-> count_metrics(results)]>>
    /\ pc' = "done"
    /\ UNCHANGED <<appVars, inputVars, engineVars, auxVars, all_strategy_results>>

\* the frame had no rows: pd.DataFrame([]) has no 'Status' column and the lookup raises
SummariseEmpty ==
    /\ pc = "row"
    /\ results = <<>>
    /\ error' = [raised |-> TRUE, type |-> "KeyError", missing |-> <<>>]
    /\ pc' = "failed"
    /\ UNCHANGED <<appVars, inputVars, engineVars, searchVars, call, ret>>

Next == ProcessSkipped \/ ProcessBom \/ ProcessRaw \/ NextRow \/ Summarise \/ SummariseEmpty

Spec == Init /\ [][Next]_vars

\* ------------------------------------------------------- the archived workbook engine
\* Archive/MinMax.py keeps no usage ledger: stock is the StockTally dict, reduced by the
\* committed quantities before the loop (never below 0), and a release subtracts from it.

\* bom = struct[struct["Parent Part"] == part]
MinMax_bom(st, part) == SelectSeq(st, LAMBDA s : s.Parent = part)

\* one iteration of "for _, comp in bom.iterrows()" (body of the try)
MinMax_CheckComponent(comp, demand, stk, pos) ==
    LET comp_part == comp.Component
        qpa == IF comp.QpAKind = "nan" THEN 1 ELSE comp.QpA
        required_qty == qpa * demand
        available == Get(stk, comp_part, 0)
        shortage == required_qty - available
        m == po_match(future_pos(pos, comp_part), shortage)
    IN [sufficient |-> ~(available < required_qty),
        req |-> [part |-> comp_part, required |-> required_qty],
        detail |->
          IF ~(available < required_qty) THEN NoDetail
          ELSE IF m.found
               THEN [NoDetail EXCEPT !.kind = "po", !.part = comp_part,
                                     !.short = shortage, !.po = m.PONumber, !.due = m.Due]
               ELSE [NoDetail EXCEPT !.kind = "need", !.part = comp_part,
                                     !.need = required_qty, !.have = available,
                                     !.short = shortage]]

\* for req in component_requirements: stock[comp_part] -= required_qty
\* (outside any try: a component that is no key of stock raises KeyError)
RECURSIVE MinMax_Commit(_, _)
MinMax_Commit(reqs, stk) ==
    IF reqs = <<>> THEN [raised |-> FALSE, stock |-> stk]
    ELSE IF Head(reqs).part \notin DOMAIN stk THEN [raised |-> TRUE, stock |-> stk]
    ELSE MinMax_Commit(Tail(reqs),
                       [stk EXCEPT ![Head(reqs).part] = @ - Head(reqs).required])

\* if len(bom) > 0: check every component, then allocate
MinMax_BomBranch(r, b, stk, pos, labor) ==
    LET chk == [i \in 1..Len(b) |-> MinMax_CheckComponent(b[i], demand_qty(r), stk, pos)]
        reqs == [i \in 1..Len(chk) |-> chk[i].req]
        avail == \A i \in 1..Len(chk) : chk[i].sufficient
        commit == IF avail THEN MinMax_Commit(reqs, stk) ELSE [raised |-> FALSE, stock |-> stk]
    IN [raised |-> commit.raised,
        result |-> BuildResult(r, labor, avail, bom_shortage_details(chk), components_needed(reqs)),
        stock |-> commit.stock]

\* else: raw material / purchased part (the whole branch is inside a try)
MinMax_RawBranch(r, stk, labor) ==
    LET part == r.Part
        available == Get(stk, part, 0)
    IN IF available >= demand_qty(r)
       THEN IF part \in DOMAIN stk
            THEN [raised |-> FALSE,
                  result |-> BuildResult(r, labor, TRUE, <<>>, <<>>),
                  stock |-> [stk EXCEPT ![part] = @ - demand_qty(r)]]
            ELSE [raised |-> FALSE,
                  result |-> BuildResult(r, labor, FALSE, <<[NoDetail EXCEPT !.kind = "error"]>>, <<>>),
                  stock |-> stk]
       ELSE [raised |-> FALSE,
             result |-> BuildResult(r, labor, FALSE,
                          <<[NoDetail EXCEPT !.kind = "need", !.part = part,
                                             !.need = demand_qty(r), !.have = available,
                                             !.short = demand_qty(r) - available]>>, <<>>),
             stock |-> stk]

\* body of "for _, row in df_main.iterrows()" of the archived engine
MinMax_ProcessRow(r, st, stk, pos, labor) ==
    IF IsSkipped(r) THEN [raised |-> FALSE, result |-> SkippedResult(r), stock |-> stk]
    ELSE IF Len(MinMax_bom(st, r.Part)) > 0
         THEN MinMax_BomBranch(r, MinMax_bom(st, r.Part), stk, pos, labor)
         ELSE MinMax_RawBranch(r, stk, labor)

\* "Adjust stock for existing commitments": stock[c] = max(0, stock[c] - committed) for a
\* committed component that is in stock, 0 for one that is not
adjust_stock(tally, committed) ==
    [p \in (DOMAIN tally) \cup (DOMAIN committed) |->
        IF p \notin DOMAIN committed THEN tally[p]
        ELSE IF p \in DOMAIN tally
             THEN (IF tally[p] - committed[p] > 0 THEN tally[p] - committed[p] ELSE 0)
             ELSE 0]

InitMinMax ==
    /\ df_stock \in Dicts(Parts, 0..MaxQty)
    /\ committed_components \in Dicts({"A"}, 1..MaxQty)
    /\ stock = adjust_stock(df_stock, committed_components)
    /\ struct \in SeqsUpTo([Parent : Parts, Component : Parts, QpAKind : {"num"},
                             QpA : 0..MaxQty]
                               \cup [Parent : Parts, Component : Parts, QpAKind : {"nan"},
                                     QpA : {1}],
                            MaxBomRows)
    /\ df_pos = <<>>
    /\ used_components = <<>>
    /\ results = <<>>
    /\ row = NoRow
    /\ result = NoResult
    /\ bom = <<>>
    /\ released = [p \in Parts |-> 0]
    /\ used_before = <<>>
    /\ pc = "row"
    /\ labor_standards = <<>>
    /\ df_main = <<>>
    /\ all_strategy_results = <<>>
    /\ scenarios = <<>>
    /\ planned_demand = <<>>
    /\ InitAux
    /\ InitApp

\* an iteration that reaches results.append
MinMaxProcess ==
    /\ pc = "row"
    /\ \E r \in Rows :
       \E out \in {MinMax_ProcessRow(WithSO(r, Len(results) + 1), struct, stock, df_pos,
                                    labor_standards)} :
         /\ ~out.raised
         /\ row' = WithSO(r, Len(results) + 1)
         /\ bom' = MinMax_bom(struct, r.Part)
         /\ result' = out.result
         /\ results' = Append(results, out.result.Status)
         /\ stock' = out.stock
    /\ pc' = "appended"
    /\ UNCHANGED <<appVars, committed_components, df_pos, labor_standards, df_main, planned_demand, struct,
                   df_stock,
                   columns, used_components, released, used_before, searchVars, auxVars>>

\* an iteration that the commit loop leaves by an uncaught KeyError: nothing is appended,
\* the function is left and the allocations made before the failing one stay in stock
MinMaxAbort ==
    /\ pc = "row"
    /\ \E r \in Rows :
       \E out \in {MinMax_ProcessRow(WithSO(r, Len(results) + 1), struct, stock, df_pos,
                                    labor_standards)} :
         /\ out.raised
         /\ row' = WithSO(r, Len(results) + 1)
         /\ bom' = MinMax_bom(struct, r.Part)
         /\ stock' = out.stock
    /\ error' = [raised |-> TRUE, type |-> "KeyError", missing |-> <<>>]
    /\ pc' = "aborted"
    /\ UNCHANGED <<appVars, committed_components, df_pos, labor_standards, df_main, planned_demand, struct,
                   df_stock,
                   columns, used_components, results, result, released, used_before, searchVars,
                   call, ret>>

MinMaxNextRow ==
    /\ pc = "appended"
    /\ Len(results) < MaxOrders
    /\ pc' = "row"
    /\ row' = NoRow
    /\ result' = NoResult
    /\ bom' = <<>>
    /\ UNCHANGED <<appVars, inputVars, searchVars, auxVars, used_components, results, released, used_before>>

NextMinMax == MinMaxProcess \/ MinMaxAbort \/ MinMaxNextRow

SpecMinMax == InitMinMax /\ [][NextMinMax]_vars

\* ------------------------------------------------------- the first order of a run
\* against a longer supply list; every part carries an open commitment
InitResolver ==
    /\ stock \in Dicts(Parts, 1..MaxQty)
    /\ committed_components \in [Parts -> 1..MaxQty]
    /\ df_pos \in (PoTablesUpTo(MaxSupply))
    /\ used_components = committed_components
    /\ results = <<>>
    /\ row = NoRow
    /\ result = NoResult
    /\ bom = <<>>
    /\ released = [p \in Parts |-> 0]
    /\ used_before = committed_components
    /\ pc = "row"
    /\ labor_standards = [p \in Parts |-> 1]
    /\ df_main = <<>>
    /\ all_strategy_results = <<>>
    /\ scenarios = <<>>
    /\ planned_demand = <<>>
    /\ struct = <<>>
    /\ df_stock = <<>>
    /\ InitAux
    /\ InitApp

SpecResolver == InitResolver /\ [][ProcessSkipped \/ ProcessBom \/ ProcessRaw]_vars

\* ======================================================= strategy search

NaT == 0                            \* a missing Start Date (NULL, sorted first by SQL)

\* get_sorting_strategies()
get_sorting_strategies ==
    << [name |-> "Start Date (Early First)", columns |-> <<"Start Date", "SO Number">>,
        ascending |-> <<TRUE, TRUE>>],
       [name |-> "Start Date (Late First)", columns |-> <<"Start Date", "SO Number">>,
        ascending |-> <<FALSE, TRUE>>],
       [name |-> "Demand (Small First)", columns |-> <<"Demand", "Start Date">>,
        ascending |-> <<TRUE, TRUE>>],
       [name |-> "Demand (Large First)", columns |-> <<"Demand", "Start Date">>,
        ascending |-> <<FALSE, TRUE>>],
       [name |-> "Hours (Quick First)", columns |-> <<"Hours_Calc", "Start Date">>,
        ascending |-> <<TRUE, TRUE>>],
       [name |-> "Hours (Long First)", columns |-> <<"Hours_Calc", "Start Date">>,
        ascending |-> <<FALSE, TRUE>>],
       [name |-> "Part Number (A-Z)", columns |-> <<"Part", "Start Date">>,
        ascending |-> <<TRUE, TRUE>>],
       [name |-> "Part Number (Z-A)", columns |-> <<"Part", "Start Date">>,
        ascending |-> <<FALSE, TRUE>>],
       [name |-> "Planner (A-Z)", columns |-> <<"Planner", "Start Date">>,
        ascending |-> <<TRUE, TRUE>>],
       [name |-> "Planner (Z-A)", columns |-> <<"Planner", "Start Date">>,
        ascending |-> <<FALSE, TRUE>>] >>

DefaultInclude == [include_kits |-> TRUE, include_instruments |-> TRUE,
                   include_virtuoso |-> TRUE, include_kit_samples |-> TRUE]

\* mutant: the mask starts as all True, nothing is filtered out
filter_mask_all(planner, inc) == TRUE

\* filter_mask: False, then or-ed with isin(<category>) for each selected category
filter_mask(planner, inc) ==
    \/ inc.include_kits /\ planner \in ({"3001", "3801", "5001"})
    \/ inc.include_instruments /\ planner \in ({"3802", "3803", "3804", "3805"})
    \/ inc.include_virtuoso /\ planner \in ({"3806"})
    \/ inc.include_kit_samples /\ planner \in ({"KIT SAMPLES"})

\* df_main[filter_mask] for the flags of the call
filtered_df_main(frame, inc) == SelectSeq(frame, LAMBDA r : filter_mask(r.Planner, inc))

StrRank(v) == CHOOSE i \in 1..4 : <<"3001", "3802", "A", "B">>[i] = v

\* Hours_Calc = labor_standards.get(Part, 0) * Demand
Hours_Calc(r, labor) == Get(labor, r.Part, 0) * r.Demand

KeyOf(r, col, labor) ==
    CASE col = "Start Date" -> r.StartDate
      [] col = "SO Number" -> r.SO
      [] col = "Demand" -> r.Demand
      [] col = "Hours_Calc" -> Hours_Calc(r, labor)
      [] col = "Part" -> StrRank(r.Part)
      [] col = "Planner" -> StrRank(r.Planner)

ColEq(a, b, col, labor) == KeyOf(a, col, labor) = KeyOf(b, col, labor)

\* a sorts strictly before b on one column; NaT goes last in either direction
ColLess(a, b, col, asc, labor) ==
    LET ka == KeyOf(a, col, labor)
        kb == KeyOf(b, col, labor)
    IN IF col = "Start Date" /\ (ka = NaT \/ kb = NaT)
       THEN ka # NaT /\ kb = NaT
       ELSE IF asc THEN ka < kb ELSE ka > kb

\* mutant: only the first column of the strategy is compared
RowLess_primary(a, b, strategy, labor) ==
    ColLess(a, b, strategy.columns[1], strategy.ascending[1], labor)

RowLess(a, b, strategy, labor) ==
    \/ ColLess(a, b, strategy.columns[1], strategy.ascending[1], labor)
    \/ /\ ColEq(a, b, strategy.columns[1], labor)
       /\ ColLess(a, b, strategy.columns[2], strategy.ascending[2], labor)

RECURSIVE InsertStable(_, _, _, _)
InsertStable(sorted, x, strategy, labor) ==
    IF sorted = <<>> THEN <<x>>
    ELSE IF RowLess(x, Head(sorted), strategy, labor) THEN <<x>> \o sorted
    ELSE <<Head(sorted)>> \o InsertStable(Tail(sorted), x, strategy, labor)

\* frame.sort_values(columns, ascending=..., na_position='last'): a stable lexsort
RECURSIVE sort_values(_, _, _)
sort_values(frame, strategy, labor) ==
    IF frame = <<>> THEN <<>>
    ELSE InsertStable(sort_values(SubSeq(frame, 1, Len(frame) - 1), strategy, labor),
                      frame[Len(frame)], strategy, labor)

\* the loop over the sorted frame; no shop order has planned demand rows here
RECURSIVE RunLoop(_, _, _, _, _)
RunLoop(frame, acc, stk, pos, labor) ==
    IF frame = <<>> THEN acc
    ELSE LET out == ProcessRow(Head(frame), <<>>, stk, acc.used, pos, labor)
         IN RunLoop(Tail(frame),
                    [results |-> Append(acc.results, out.result), used |-> out.used],
                    stk, pos, labor)

RECURSIVE SumOver(_, _, _)
SumOver(res, status, field) ==
    IF res = <<>> THEN 0
    ELSE (IF Head(res).Status = status
          THEN (IF field = "Hours" THEN Head(res).Hours
                ELSE IF field = "Demand" THEN Head(res).Demand ELSE 1)
          ELSE 0) + SumOver(Tail(res), status, field)

\* the summary metrics of one run
Metrics(res) ==
    [total_orders |-> count_metrics([i \in 1..Len(res) |-> res[i].Status]).total_orders,
     releasable_count |-> count_metrics([i \in 1..Len(res) |-> res[i].Status]).releasable_count,
     held_count |-> count_metrics([i \in 1..Len(res) |-> res[i].Status]).held_count,
     skipped_count |-> count_metrics([i \in 1..Len(res) |-> res[i].Status]).skipped_count,
     releasable_hours |-> SumOver(res, "Release", "Hours"),
     held_hours |-> SumOver(res, "Hold", "Hours"),
     releasable_qty |-> SumOver(res, "Release", "Demand"),
     held_qty |-> SumOver(res, "Hold", "Demand")]

\* mutant: the ledger is kept from one call to the next instead of being seeded again
engine_run_shared(strategy, frame, stk, committed, pos, labor) ==
    LET sorted == sort_values(sort_values(filtered_df_main(frame, DefaultInclude), strategy, labor),
                              strategy, labor)
        out == RunLoop(sorted, [results |-> <<>>, used |-> used_components], stk, pos, labor)
    IN [seed |-> used_components, used |-> out.used, results |-> out.results]

\* the ledger and the loop of one call: used_components = committed_components.copy(),
\* the frame filtered and sorted (once per column of the strategy), then the loop
engine_run(strategy, frame, stk, committed, pos, labor) ==
    LET sorted == sort_values(sort_values(filtered_df_main(frame, DefaultInclude), strategy, labor),
                              strategy, labor)
        out == RunLoop(sorted, [results |-> <<>>, used |-> committed], stk, pos, labor)
    IN [seed |-> committed, used |-> out.used, results |-> out.results]

\* the dictionary process_single_scenario returns
scenario_result(strategy, run) ==
    [sorting_strategy |-> strategy.name,
     results_df |-> run.results,
     metrics |-> Metrics(run.results)]

\* process_single_scenario(..., sorting_strategy=strategy) from loading to return
process_single_scenario(strategy, frame, stk, committed, pos, labor) ==
    scenario_result(strategy, engine_run(strategy, frame, stk, committed, pos, labor))

\* mutant: a later element replaces the best one when it merely equals it
RECURSIVE MaxBy_last(_, _, _)
MaxBy_last(runs, metric, best) ==
    IF runs = <<>> THEN best
    ELSE MaxBy_last(Tail(runs), metric,
               IF Head(runs).metrics[metric] >= best.metrics[metric] THEN Head(runs) ELSE best)

\* mutant: the comparison is reversed, the smallest key wins
RECURSIVE MaxBy_min(_, _, _)
MaxBy_min(runs, metric, best) ==
    IF runs = <<>> THEN best
    ELSE MaxBy_min(Tail(runs), metric,
               IF Head(runs).metrics[metric] < best.metrics[metric] THEN Head(runs) ELSE best)

\* max(all_strategy_results, key=...): the first element with the largest key
RECURSIVE MaxBy(_, _, _)
MaxBy(runs, metric, best) ==
    IF runs = <<>> THEN best
    ELSE MaxBy(Tail(runs), metric,
               IF Head(runs).metrics[metric] > best.metrics[metric] THEN Head(runs) ELSE best)

max(runs, metric) == MaxBy(Tail(runs), metric, Head(runs))

\* the new scenario object made for a winner: its label is prefix + ": " + strategy name
best_scenario(name, prefix, best) ==
    [name |-> name,
     sorting_strategy |-> <<prefix, best.sorting_strategy>>,
     results_df |-> best.results_df,
     metrics |-> best.metrics]

\* ------------------------------------------------------- inputs of the search
\* IFS.INVENTORY_PART_TAB.PLANNER_BUYER, joined to the shop orders on the part number
PLANNER_BUYER == [p \in Parts |-> IF p = "A" THEN "3802" ELSE "3001"]

\* ORDER BY so.REVISED_START_DATE, so.ORDER_NO
RECURSIVE SqlOrder(_)
SqlOrder(rows) ==
    IF rows = {} THEN <<>>
    ELSE LET first == CHOOSE r \in rows : \A q \in rows :
                          \/ r.StartDate < q.StartDate
                          \/ (r.StartDate = q.StartDate /\ r.SO <= q.SO)
         IN <<first>> \o SqlOrder(rows \ {first})

\* the demand relation: shop orders 1..n with their part's planner
DemandFrames ==
    {SqlOrder({[SO |-> so, Part |-> a[so].Part, Planner |-> PLANNER_BUYER[a[so].Part],
                StartDate |-> a[so].StartDate, Demand |-> a[so].Demand] : so \in DOMAIN a}) :
        a \in UNION {[1..n -> [Part : Parts, StartDate : {NaT} \cup 1..MaxOrders,
                                Demand : 1..(MaxQty + 1)]] : n \in 1..MaxDemandRows}}

InitSearch ==
    /\ df_main \in DemandFrames
    /\ stock = [p \in Parts |-> MaxQty + 1]
    /\ committed_components \in Dicts(Parts, 1..MaxQty)
    /\ labor_standards \in [{"A"} -> 1..MaxQty]   \* no labour standard for part B
    /\ df_pos = <<>>
    /\ used_components = committed_components
    /\ results = <<>>
    /\ row = NoRow
    /\ result = NoResult
    /\ bom = <<>>
    /\ released = [p \in Parts |-> 0]
    /\ used_before = committed_components
    /\ pc = "search"
    /\ all_strategy_results = <<>>
    /\ scenarios = <<>>
    /\ planned_demand = <<>>
    /\ struct = <<>>
    /\ df_stock = <<>>
    /\ InitAux
    /\ InitApp

\* one iteration of "for strategy_idx, strategy in enumerate(strategies)"; the ledger
\* variables keep what the call seeded and what it left behind
RunStrategy ==
    /\ pc = "search"
    /\ Len(all_strategy_results) < Len(get_sorting_strategies)
    /\ missing_columns(columns) = <<>>
    /\ \E strategy \in {get_sorting_strategies[Len(all_strategy_results) + 1]} :
       \E run \in {engine_run(strategy, df_main, stock, committed_components, df_pos,
                              labor_standards)} :
         /\ all_strategy_results' = Append(all_strategy_results, scenario_result(strategy, run))
         /\ used_before' = run.seed
         /\ used_components' = run.used
    /\ UNCHANGED <<appVars, inputVars, auxVars, results, row, result, bom, released, scenarios, pc>>

\* "Find the best strategies" and the three scenarios built from them
SelectBest ==
    /\ pc = "search"
    /\ Len(all_strategy_results) = Len(get_sorting_strategies)
    /\ scenarios' = [BEST_ORDERS |-> best_scenario("BEST_ORDERS_Database", "BEST ORDERS",
                                        max(all_strategy_results, "releasable_count")),
                     BEST_HOURS |-> best_scenario("BEST_HOURS_Database", "BEST HOURS",
                                        max(all_strategy_results, "releasable_hours")),
                     BEST_QTY |-> best_scenario("BEST_QTY_Database", "BEST QTY",
                                        max(all_strategy_results, "releasable_qty"))]
    /\ pc' = "done"
    /\ UNCHANGED <<appVars, inputVars, engineVars, auxVars, all_strategy_results>>

NextSearch == RunStrategy \/ SelectBest

SpecSearch == InitSearch /\ [][NextSearch]_vars

\* ------------------------------------------------------- a demand relation lacking columns
\* the search over a demand relation of one order whose columns are any subset of the
\* required ones; no ledger exists before the first call has built one
InitSchema ==
    /\ columns \in SUBSET {required_columns[i] : i \in 1..Len(required_columns)}
    /\ df_main \in {f \in DemandFrames : Len(f) = 1}
    /\ stock = [p \in Parts |-> MaxQty + 1]
    /\ committed_components \in Dicts(Parts, 1..MaxQty)
    /\ labor_standards = [p \in {"A"} |-> 1]
    /\ df_pos = <<>>
    /\ used_components = <<>>
    /\ results = <<>>
    /\ row = NoRow
    /\ result = NoResult
    /\ bom = <<>>
    /\ released = [p \in Parts |-> 0]
    /\ used_before = <<>>
    /\ pc = "search"
    /\ all_strategy_results = <<>>
    /\ scenarios = <<>>
    /\ planned_demand = <<>>
    /\ struct = <<>>
    /\ df_stock = <<>>
    /\ error = NoError
    /\ call = [fn |-> "", metrics |-> <<>>, key |-> "", default |-> 0, given |-> FALSE]
    /\ ret = NoRet
    /\ InitApp

\* process_single_scenario raises ValueError after loading the tables; the handler of
\* load_and_process_database reports "Processing failed"
SchemaError ==
    /\ pc = "search"
    /\ Len(all_strategy_results) < Len(get_sorting_strategies)
    /\ missing_columns(columns) # <<>>
    /\ error' = [raised |-> TRUE, type |-> "ValueError", missing |-> missing_columns(columns)]
    /\ pc' = "failed"
    /\ UNCHANGED <<appVars, inputVars, engineVars, searchVars, call, ret>>

NextSchema == RunStrategy \/ SelectBest \/ SchemaError

SpecSchema == InitSchema /\ [][NextSchema]_vars

\* ------------------------------------------------------- planned demand and piggyback flag
\* pb_check = f"NS{part}99"
pb_check == [p \in Parts |-> IF p = "A" THEN "NSA99" ELSE "NSB99"]

\* is_pb: the identifier is looked for among the components of ALL planned demand rows
is_pb(part, pd) ==
    IF part \in Parts /\ \E i \in 1..Len(pd) : pd[i].Component = pb_check[part] THEN "PB" ELSE "-"

\* bom = planned_demand[planned_demand["SO Number"] == so]
bom_of(pd, so) == SelectSeq(pd, LAMBDA x : x.SO = so)

\* the result record with its PB column
WithPB(res, pb) == [f \in (DOMAIN res) \cup {"PB"} |-> IF f = "PB" THEN pb ELSE res[f]]

\* mutant: an order flagged PB is put on hold
process_order_pbheld(r, pd, stk, used, pos, labor) ==
    LET out == ProcessRow(r, bom_of(pd, r.SO), stk, used, pos, labor)
        pb == IF IsSkipped(r) THEN "-" ELSE is_pb(r.Part, pd)
    IN IF pb = "PB"
       THEN [result |-> WithPB([out.result EXCEPT !.Status = "Hold"], pb), used |-> used]
       ELSE [result |-> WithPB(out.result, pb), used |-> out.used]

\* one loop iteration with the flag and the BOM lookup (a skipped order carries "-")
process_order(r, pd, stk, used, pos, labor) ==
    LET out == ProcessRow(r, bom_of(pd, r.SO), stk, used, pos, labor)
        pb == IF IsSkipped(r) THEN "-" ELSE is_pb(r.Part, pd)
    IN [result |-> WithPB(out.result, pb), used |-> out.used]

\* the loop over a frame, keeping the last record and the ledger
RECURSIVE run_orders(_, _, _, _, _, _)
run_orders(frame, pd, acc, stk, pos, labor) ==
    IF frame = <<>> THEN acc
    ELSE LET out == process_order(Head(frame), pd, stk, acc.used, pos, labor)
         IN run_orders(Tail(frame), pd, [last |-> out.result, used |-> out.used], stk, pos, labor)

InitPB ==
    /\ df_main \in {[i \in 1..Len(f) |-> WithSO(f[i], i)] :
                       f \in SeqsUpTo([Part : Parts \cup {"nan"}, Demand : 1..MaxQty],
                                      MaxOrders) \ {<<>>}}
    /\ planned_demand \in
          SeqsUpTo([SO : 1..(MaxOrders + 1), Component : Parts \cup {pb_check["A"]},
                    QtyKind : {"num"}, Qty : 1..MaxQty]
                      \cup [SO : 1..(MaxOrders + 1), Component : Parts \cup {pb_check["A"]},
                            QtyKind : {"nan"}, Qty : {0}],
                   MaxBomRows)
    /\ stock \in [Parts -> 0..MaxQty]
    /\ committed_components = <<>>
    /\ df_pos = <<>>
    /\ labor_standards = <<>>
    /\ used_components = <<>>
    /\ results = <<>>
    /\ row = NoRow
    /\ result = NoResult
    /\ bom = <<>>
    /\ released = [p \in Parts |-> 0]
    /\ used_before = <<>>
    /\ pc = "row"
    /\ all_strategy_results = <<>>
    /\ scenarios = <<>>
    /\ struct = <<>>
    /\ df_stock = <<>>
    /\ InitAux
    /\ InitApp

\* one iteration of the loop over the frame
ProcessOrder ==
    /\ pc = "row"
    /\ Len(results) < Len(df_main)
    /\ \E r \in {df_main[Len(results) + 1]} :
       \E out \in {process_order(r, planned_demand, stock, used_components, df_pos,
                                 labor_standards)} :
         /\ row' = r
         /\ bom' = bom_of(planned_demand, r.SO)
         /\ result' = out.result
         /\ results' = Append(results, out.result.Status)
         /\ used_components' = out.used
    /\ used_before' = used_components
    /\ pc' = "appended"
    /\ UNCHANGED <<appVars, inputVars, searchVars, auxVars, released>>

NextOrder ==
    /\ pc = "appended"
    /\ Len(results) < Len(df_main)
    /\ pc' = "row"
    /\ UNCHANGED <<appVars, inputVars, engineVars, searchVars, auxVars>>

NextPB == ProcessOrder \/ NextOrder

SpecPB == InitPB /\ [][NextPB]_vars

\* ------------------------------------------------------- metric helpers
\* mutant: a missing key is stored in the dict (metrics.setdefault)
safe_metric_setdefault(metrics, key, default) ==
    [value |-> Get(metrics, key, default),
     metrics |-> IF key \in DOMAIN metrics THEN metrics ELSE Put(metrics, key, default)]

\* return metrics.get(key, default); the dict is handed back as the call left it
safe_metric(metrics, key, default) ==
    [value |-> Get(metrics, key, default), metrics |-> metrics]

MetricKeys == {"releasable_count", "held_count", "pb_count"}

InitMetric ==
    /\ call \in [fn : {"safe_metric"}, metrics : Dicts(MetricKeys \ {"pb_count"}, 0..MaxMetric),
                  key : MetricKeys, default : {0}, given : {FALSE}]
                   \cup [fn : {"safe_metric"},
                         metrics : Dicts(MetricKeys \ {"pb_count"}, 0..MaxMetric),
                         key : MetricKeys, default : 0..MaxMetric, given : {TRUE}]
    /\ ret = NoRet
    /\ error = NoError
    /\ columns = {required_columns[i] : i \in 1..Len(required_columns)}
    /\ stock = <<>>
    /\ committed_components = <<>>
    /\ df_pos = <<>>
    /\ labor_standards = <<>>
    /\ df_main = <<>>
    /\ planned_demand = <<>>
    /\ struct = <<>>
    /\ df_stock = <<>>
    /\ used_components = <<>>
    /\ results = <<>>
    /\ row = NoRow
    /\ result = NoResult
    /\ bom = <<>>
    /\ released = [p \in Parts |-> 0]
    /\ used_before = <<>>
    /\ all_strategy_results = <<>>
    /\ scenarios = <<>>
    /\ pc = "call"
    /\ InitApp

\* the call is made; the parameter default is 0 when the caller gives none
SafeMetric ==
    /\ pc = "call"
    /\ ret' = safe_metric(call.metrics, call.key, IF call.given THEN call.default ELSE 0)
    /\ pc' = "returned"
    /\ UNCHANGED <<appVars, inputVars, engineVars, searchVars, error, call>>

SpecMetric == InitMetric /\ [][SafeMetric]_vars

\* ------------------------------------------------------- format_metric
\* Python values handed to format_metric: ints, floats n + 0.5, bools, strings and None
MetricValues ==
    [kind : {"int", "float"}, n : 0..MaxMetric, s : {""}]
      \cup [kind : {"bool"}, n : 0..1, s : {""}]
      \cup [kind : {"str"}, n : {0}, s : {"bad", "12", ""}]
      \cup [kind : {"None"}, n : {0}, s : {""}]

\* decimal digits of a small natural number
IntStr(n) == <<"0", "1", "2", "3", "4", "5", "6", "7", "8", "9">>[n + 1]

\* str(value)
str(value) ==
    CASE value.kind = "int" -> IntStr(value.n)
      [] value.kind = "float" -> IntStr(value.n) \o ".5"
      [] value.kind = "bool" -> IF value.n = 1 THEN "True" ELSE "False"
      [] value.kind = "str" -> value.s
      [] value.kind = "None" -> "None"

\* format(value, spec) for the specs ",", ",.1f" and ".1f": numbers below 1000 get no
\* separator; str.__format__ rejects the spec with ValueError, None with TypeError
Format(value, spec) ==
    CASE value.kind \in {"int", "bool"} ->
           [raised |-> "", text |-> IF spec = "," THEN IntStr(value.n) ELSE IntStr(value.n) \o ".0"]
      [] value.kind = "float" -> [raised |-> "", text |-> IntStr(value.n) \o ".5"]
      [] value.kind = "str" -> [raised |-> "ValueError", text |-> ""]
      [] value.kind = "None" -> [raised |-> "TypeError", text |-> ""]

\* the body of the try
format_metric_try(value, format_type) ==
    CASE format_type = "number" -> Format(value, ",")
      [] format_type = "hours" -> Format(value, ",.1f")
      [] format_type = "percentage" ->
           LET f == Format(value, ".1f")
           IN IF f.raised = "" THEN [raised |-> "", text |-> f.text \o "%"] ELSE f
      [] OTHER -> [raised |-> "", text |-> str(value)]

\* mutant: the handler catches ValueError only
format_metric_valueerror(value, format_type) ==
    LET t == format_metric_try(value, format_type)
    IN IF t.raised = "ValueError" THEN [raised |-> "", value |-> "0"]
       ELSE [raised |-> t.raised, value |-> t.text]

\* try: ... except (TypeError, ValueError): return "0"
format_metric(value, format_type) ==
    LET t == format_metric_try(value, format_type)
    IN IF t.raised \in {"TypeError", "ValueError"} THEN [raised |-> "", value |-> "0"]
       ELSE [raised |-> t.raised, value |-> t.text]

InitFormat ==
    /\ call \in [fn : {"format_metric"}, value : MetricValues,
                  format_type : {"number", "hours", "percentage", "currency"}, given : {TRUE}]
                   \cup [fn : {"format_metric"}, value : MetricValues, format_type : {""},
                         given : {FALSE}]
    /\ ret = NoRet
    /\ error = NoError
    /\ columns = {required_columns[i] : i \in 1..Len(required_columns)}
    /\ stock = <<>>
    /\ committed_components = <<>>
    /\ df_pos = <<>>
    /\ labor_standards = <<>>
    /\ df_main = <<>>
    /\ planned_demand = <<>>
    /\ struct = <<>>
    /\ df_stock = <<>>
    /\ used_components = <<>>
    /\ results = <<>>
    /\ row = NoRow
    /\ result = NoResult
    /\ bom = <<>>
    /\ released = [p \in Parts |-> 0]
    /\ used_before = <<>>
    /\ all_strategy_results = <<>>
    /\ scenarios = <<>>
    /\ pc = "call"
    /\ InitApp

\* the call is made; format_type is 'number' when the caller gives none
FormatMetric ==
    /\ pc = "call"
    /\ ret' = format_metric(call.value, IF call.given THEN call.format_type ELSE "number")
    /\ pc' = "returned"
    /\ UNCHANGED <<appVars, inputVars, engineVars, searchVars, error, call>>

SpecFormat == InitFormat /\ [][FormatMetric]_vars

\* ======================================================= properties

Available(p) == Get(stock, p, 0) - Get(used_components, p, 0)

BomParts(b) == {b[i].Component : i \in 1..Len(b)}

AvailableBefore(p) == Get(stock, p, 0) - Get(used_before, p, 0)

LedgerKeys == Parts \cup DOMAIN used_components \cup DOMAIN used_before

\* C1 (atomicity): when an order ends Held, the used and the available quantity of
\* every part are what they were immediately before the order was evaluated.
C1_Atomicity ==
    (pc = "appended" /\ result.Status = "Hold")
        => \A p \in LedgerKeys :
             /\ Get(used_components, p, 0) = Get(used_before, p, 0)
             /\ Available(p) = AvailableBefore(p)

\* a Held order with two BOM rows of which one passed the feasibility check alone
C1_Witness ==
    /\ pc = "appended"
    /\ result.Status = "Hold"
    /\ Len(bom) >= 2
    /\ \E i, j \in 1..Len(bom) :
         /\ bom[i].Component # bom[j].Component
         /\ bom[i].QtyKind = "num" /\ bom[i].Qty > 0 /\ Available(bom[i].Component) >= bom[i].Qty
         /\ bom[j].QtyKind = "num" /\ Available(bom[j].Component) < bom[j].Qty

\* C2 (conservation): for every part, initial stock - committed - quantity required
\* by the orders Released so far = stock - used_components.
C2_Conservation ==
    \A p \in Parts :
        Get(stock, p, 0) - Get(committed_components, p, 0) - released[p] = Available(p)

\* a run with one Released and one Held order, something allocated on top of a commitment
C2_Witness ==
    /\ Len(results) = 2
    /\ results[1] = "Release" /\ results[2] = "Hold"
    /\ \E p \in Parts : released[p] > 0 /\ Get(committed_components, p, 0) > 0

\* C3 (no negative quantity after a successful allocation): whenever an order is
\* Released, every part it consumed has available quantity >= 0 after the commit.
C3_NonNegativeAfterRelease ==
    (pc = "appended" /\ result.Status = "Release")
        => \A p \in (IF bom = <<>> THEN {row.Part} ELSE BomParts(bom)) :
             (IF bom = <<>> THEN row.Demand ELSE RequiredOf(bom, p)) > 0 => Available(p) >= 0

\* C4 (skip invariant): an order whose part is None or 'nan', or whose demand is <= 0,
\* is Skipped with the reason 'Missing part number or zero demand' and leaves every
\* ledger entry unchanged, whatever the ledger holds.
C4_SkipInvariant ==
    (pc = "appended" /\ (row.Part \in {NoneVal, "nan"} \/ row.Demand <= 0))
        => /\ result.Status = "Skipped"
           /\ result.Components.text = "Missing part number or zero demand"
           /\ used_components = used_before

\* a 'nan' part with positive demand was Skipped although its part is a key of a
\* ledger that already holds allocations
C4_Witness ==
    /\ pc = "appended"
    /\ row.Part = "nan" /\ row.Demand > 0
    /\ result.Status = "Skipped"
    /\ \E p \in Parts : released[p] > 0

\* indices of the supply records able to cover a shortfall s of part p
Qualifying(p, s) ==
    {j \in 1..Len(df_pos) :
        df_pos[j].PartNumber = p /\ df_pos[j].Due >= Now /\ df_pos[j].QtyDue >= s}

FirstQualifying(p, s) == CHOOSE j \in Qualifying(p, s) : \A k \in Qualifying(p, s) : j <= k

Details == {result.Components.details[i] : i \in 1..Len(result.Components.details)}

\* quantity the k-th BOM row of the current order asks for (NA counts 0)
RowRequired(k) == IF bom[k].QtyKind = "num" THEN bom[k].Qty ELSE 0

\* the k-th BOM row of the current order failed its feasibility check
RowFails(k) ==
    bom[k].QtyKind # "bad" /\ AvailableBefore(bom[k].Component) < RowRequired(k)

C8_RawShortageResolved ==
    LET s == row.Demand - AvailableBefore(row.Part)
    IN (pc = "appended" /\ result.Status = "Hold" /\ bom = <<>> /\ Qualifying(row.Part, s) # {})
         => \E d \in Details :
              /\ d.part = row.Part
              /\ d.kind = "po"
              /\ d.po = df_pos[FirstQualifying(row.Part, s)].PONumber

\* ------------------------------------------------------- properties of the search

Runs == 1..Len(all_strategy_results)

MetricOf(i, metric) == all_strategy_results[i].metrics[metric]

\* C5 (argmax correctness): the run chosen as BEST_ORDERS has releasable_count >= that
\* of every evaluated run, BEST_HOURS has releasable_hours >= that of every run and
\* BEST_QTY has releasable_qty >= that of every run.
C5_ArgmaxCorrect ==
    pc = "done" =>
        \A i \in Runs :
            /\ scenarios.BEST_ORDERS.metrics.releasable_count >= MetricOf(i, "releasable_count")
            /\ scenarios.BEST_HOURS.metrics.releasable_hours >= MetricOf(i, "releasable_hours")
            /\ scenarios.BEST_QTY.metrics.releasable_qty >= MetricOf(i, "releasable_qty")

\* a later strategy releases more orders than the first one and is chosen for it
C5_Witness ==
    /\ pc = "done"
    /\ \E i \in Runs :
         /\ MetricOf(i, "releasable_count") > MetricOf(1, "releasable_count")
         /\ scenarios.BEST_ORDERS.results_df = all_strategy_results[i].results_df

\* the first run, in get_sorting_strategies order, that reaches the maximum of a metric
FirstMax(metric) ==
    CHOOSE i \in Runs :
        /\ \A j \in Runs : MetricOf(i, metric) >= MetricOf(j, metric)
        /\ \A j \in Runs : MetricOf(j, metric) = MetricOf(i, metric) => i <= j

\* C6 (argmax tie-break): for each objective the winner is the tied run whose strategy
\* comes first in get_sorting_strategies; the three objectives are decided independently.
C6_FirstWins ==
    pc = "done" =>
        /\ scenarios.BEST_ORDERS.sorting_strategy[2]
             = get_sorting_strategies[FirstMax("releasable_count")].name
        /\ scenarios.BEST_HOURS.sorting_strategy[2]
             = get_sorting_strategies[FirstMax("releasable_hours")].name
        /\ scenarios.BEST_QTY.sorting_strategy[2]
             = get_sorting_strategies[FirstMax("releasable_qty")].name

\* two runs with different results tie on the best count, neither being the first
\* run, and the winner on hours is another strategy than the winner on count
C6_Witness ==
    /\ pc = "done"
    /\ \E i, j \in Runs :
         /\ 1 < i /\ i < j
         /\ i = FirstMax("releasable_count")
         /\ MetricOf(j, "releasable_count") = MetricOf(i, "releasable_count")
         /\ all_strategy_results[j].results_df # all_strategy_results[i].results_df
    /\ scenarios.BEST_ORDERS.sorting_strategy[2] # scenarios.BEST_HOURS.sorting_strategy[2]

\* the rows of run i in the order in which the loop processed them
Processed(i) == all_strategy_results[i].results_df

\* the demand row of a shop order
RowOf(so) == df_main[CHOOSE k \in 1..Len(df_main) : df_main[k].SO = so]

\* pairs of positions of run i whose orders are equal on the primary sort key
TiedPairs(i) ==
    {ab \in (1..Len(Processed(i))) \X (1..Len(Processed(i))) :
        /\ ab[1] < ab[2]
        /\ ColEq(RowOf(Processed(i)[ab[1]].SO), RowOf(Processed(i)[ab[2]].SO),
                 get_sorting_strategies[i].columns[1], labor_standards)}

\* C9 as stated (ordering ties): under every strategy two orders equal on the primary
\* sort key are processed in ascending SO Number order.
C9_TiesBySONumber ==
    \A i \in Runs : \A ab \in TiedPairs(i) :
        Processed(i)[ab[1]].SO < Processed(i)[ab[2]].SO

\* C9 as amended: under the two Start Date strategies orders with equal start dates
\* are processed in ascending SO Number order; under every other strategy orders equal
\* on the primary key are processed in ascending Start Date order, those without a
\* start date last, and in ascending SO Number order when their start dates are equal.
C9_TiesByStartDate ==
    \A i \in Runs : \A ab \in TiedPairs(i) :
        LET x == RowOf(Processed(i)[ab[1]].SO)
            y == RowOf(Processed(i)[ab[2]].SO)
        IN IF get_sorting_strategies[i].columns[2] = "SO Number"
           THEN x.SO < y.SO
           ELSE \/ x.StartDate # NaT /\ (y.StartDate = NaT \/ x.StartDate < y.StartDate)
                \/ x.StartDate = y.StartDate /\ x.SO < y.SO

\* a non-date strategy processed the later-numbered of two tied orders first, one run
\* put a dated order before an undated one, and a Start Date strategy had a tie
C9_Witness ==
    /\ \E i \in Runs : \E ab \in TiedPairs(i) :
         /\ get_sorting_strategies[i].columns[2] = "Start Date"
         /\ Processed(i)[ab[1]].SO > Processed(i)[ab[2]].SO
         /\ RowOf(Processed(i)[ab[2]].SO).StartDate = NaT
    /\ \E i \in Runs : \E ab \in TiedPairs(i) :
         get_sorting_strategies[i].columns[2] = "SO Number"

\* quantity of part p taken by the Released rows of a result list
RECURSIVE ReleasedQty(_, _)
ReleasedQty(res, p) ==
    IF res = <<>> THEN 0
    ELSE (IF Head(res).Status = "Release" /\ Head(res).Part = p THEN Head(res).Demand ELSE 0)
         + ReleasedQty(Tail(res), p)

\* C10 (ordering sensitivity): of two orders without BOM that need the same part, each
\* demand alone <= the available quantity and their sum above it, the one processed
\* first is Released and the other is Held, whichever order they are processed in.
C10_FirstProcessedWins ==
    \A i \in Runs : \A a, b \in 1..Len(Processed(i)) :
        LET x == Processed(i)[a]
            y == Processed(i)[b]
            av == Get(stock, x.Part, 0) - Get(committed_components, x.Part, 0)
                    - ReleasedQty(SubSeq(Processed(i), 1, a - 1), x.Part)
        IN (a < b /\ x.Part = y.Part /\ x.Demand <= av /\ y.Demand <= av
                 /\ x.Demand + y.Demand > av)
             => (x.Status = "Release" /\ y.Status = "Hold")

StatusOf(i, so) == Processed(i)[CHOOSE k \in 1..Len(Processed(i)) : Processed(i)[k].SO = so].Status

\* two orders of one part, each within the stock and together above it: one strategy
\* released order 1 and held order 2, another released order 2 and held order 1
C10_Witness ==
    /\ Len(df_main) = 2
    /\ df_main[1].Part = df_main[2].Part
    /\ \E av \in {stock[df_main[1].Part] - Get(committed_components, df_main[1].Part, 0)} :
         /\ df_main[1].Demand <= av
         /\ df_main[2].Demand <= av
         /\ df_main[1].Demand + df_main[2].Demand > av
    /\ \E i, j \in Runs :
         /\ StatusOf(i, 1) = "Release" /\ StatusOf(i, 2) = "Hold"
         /\ StatusOf(j, 1) = "Hold" /\ StatusOf(j, 2) = "Release"

C12_OneTerminalResult ==
    [][IF pc = "row" /\ pc' = "appended"
       THEN /\ Len(results') = Len(results) + 1
            /\ SubSeq(results', 1, Len(results)) = results
            /\ results'[Len(results')] \in {"Skipped", "Release", "Hold"}
            /\ results'[Len(results')] = result'.Status
            /\ result'.SO = row'.SO
       ELSE /\ results' = results
            /\ pc' = "done" => scenarios'[1].metrics.total_orders = Len(results)]_vars

\* a run of a Skipped and a Held order has been summarised
C12_Witness ==
    /\ pc = "done"
    /\ results = <<"Skipped", "Hold">>
    /\ scenarios[1].metrics.total_orders = 2

\* C13 as stated (metrics by status): held_count, releasable_count and skipped_count
\* are the numbers of Hold, Release and Skipped records and add up to total_orders.
C13_CountsByStatus ==
    pc = "done" =>
        LET m == scenarios[1].metrics
        IN /\ m.held_count = CountStatus(results, "Hold")
           /\ m.releasable_count = CountStatus(results, "Release")
           /\ m.skipped_count = CountStatus(results, "Skipped")
           /\ m.releasable_count + m.held_count + m.skipped_count = m.total_orders

\* ------------------------------------------------------- exceptions
\* C14 as stated (no exception of one order aborts the run), in the archived copy of the
\* engine: whatever the order, the BOM and the stock map, the iteration appends exactly
\* one record for the order and the loop goes on; nothing is raised out of the loop.
C14_OrderNeverAborts ==
    /\ ~error.raised
    /\ pc \in {"row", "appended"}
    /\ pc = "appended" => /\ result.SO = row.SO
                          /\ Len(results) = row.SO
                          /\ results[Len(results)] = result.Status

\* BOM rows of the current order whose quantity cannot be parsed
BadRows == {k \in 1..Len(bom) : bom[k].QtyKind = "bad"}

\* C15 (row-level defect recovery): when a BOM row of an order raises, the order ends
\* Held with one diagnostic entry per raising row, no ledger entry changes, the other
\* rows are still checked (each failing one has its shortage entry) and the loop goes on.
C15_RowDefectRecovery ==
    (pc = "appended" /\ BadRows # {}) =>
        /\ result.Status = "Hold"
        /\ results[Len(results)] = "Hold"
        /\ Cardinality({i \in 1..Len(result.Components.details) :
                           result.Components.details[i].kind = "error"}) = Cardinality(BadRows)
        /\ \E i \in 1..Len(result.Shortages) : result.Shortages[i] = "Component processing error"
        /\ \A p \in LedgerKeys : Get(used_components, p, 0) = Get(used_before, p, 0)
        /\ \A k \in 1..Len(bom) :
              RowFails(k) => \E d \in Details :
                               /\ d.kind \in {"po", "need"}
                               /\ d.part = bom[k].Component
                               /\ d.short = RowRequired(k) - AvailableBefore(bom[k].Component)
        /\ ~error.raised
        /\ ENABLED (NextRow \/ Summarise)

\* the first row raises, the second one asks for a quantity that is available
C15_Witness ==
    /\ pc = "appended"
    /\ Len(bom) = 2
    /\ bom[1].QtyKind = "bad"
    /\ bom[2].QtyKind = "num" /\ bom[2].Qty > 0
    /\ AvailableBefore(bom[2].Component) >= bom[2].Qty
    /\ result.Status = "Hold"

\* required columns that the demand relation lacks
MissingSet == {required_columns[i] : i \in 1..Len(required_columns)} \ columns

C17_ImplicitRequirement ==
    (pc = "appended" /\ bom = <<>> /\ result.Status # "Skipped") =>
        /\ result.Status = "Release" <=> AvailableBefore(row.Part) >= row.Demand
        /\ result.Status \in {"Release", "Hold"}
        /\ Get(used_components, row.Part, 0) =
              Get(used_before, row.Part, 0) + (IF result.Status = "Release" THEN row.Demand ELSE 0)
        /\ Available(row.Part) =
              AvailableBefore(row.Part) - (IF result.Status = "Release" THEN row.Demand ELSE 0)
        /\ \A p \in LedgerKeys \ {row.Part} : Get(used_components, p, 0) = Get(used_before, p, 0)

\* a released order that took the last unit of its part on top of a commitment, while
\* another part has a commitment of its own
C17_Witness ==
    /\ pc = "appended"
    /\ bom = <<>>
    /\ result.Status = "Release"
    /\ Get(used_before, row.Part, 0) > 0
    /\ AvailableBefore(row.Part) = row.Demand
    /\ Available(row.Part) = 0
    /\ \E p \in Parts \ {row.Part} : Get(used_components, p, 0) > 0

\* shortage entries of the current order that name a component
ComponentEntries == {d \in Details : d.kind \in {"po", "need"}}

\* C18 as stated (shortage list content): for a Held order with a BOM, the components
\* named by the shortage entries are exactly the components whose available quantity is
\* below the quantity the order requires of them, and each entry's shortfall is that
\* required quantity minus the available quantity.
C18_ShortageListContent ==
    (pc = "appended" /\ bom # <<>> /\ result.Status = "Hold") =>
        /\ {d.part : d \in ComponentEntries} =
              {p \in BomParts(SelectSeq(bom, LAMBDA c : c.QtyKind # "bad")) :
                   AvailableBefore(p) < RequiredOf(bom, p)}
        /\ \A d \in ComponentEntries :
              d.short = RequiredOf(bom, d.part) - AvailableBefore(d.part)

\* the run over the orders processed so far on the input without piggyback identifiers
Twin ==
    run_orders(SubSeq(df_main, 1, Len(results)),
               SelectSeq(planned_demand, LAMBDA x : x.Component \notin {pb_check[p] : p \in Parts}),
               [last |-> NoResult, used |-> committed_components], stock, df_pos, labor_standards)

SameButPB ==
    /\ result.Status = Twin.last.Status
    /\ result.Shortages = Twin.last.Shortages
    /\ used_components = Twin.used

\* C19 as stated (piggyback flag informational): whatever rows naming NS<part>99 the
\* planned demand holds, every order gets the status and the shortage list it gets
\* without them, and the ledger evolves alike.
C19_PiggybackAnyRow == pc = "appended" => SameButPB

\* no processed order has a planned demand row that names a piggyback identifier
PbRowsOutside ==
    \A i \in 1..Len(planned_demand) :
        planned_demand[i].Component \in {pb_check[p] : p \in Parts} =>
            planned_demand[i].SO \notin 1..Len(df_main)

\* C19 (amended): when the rows naming NS<part>99 belong to shop orders outside the
\* processed demand, every order gets the status and the shortage list it gets without
\* them and the ledger evolves alike; only PB differs.
C19_PiggybackInformational ==
    (pc = "appended" /\ PbRowsOutside) =>
        /\ SameButPB
        /\ Twin.last.PB = "-"
        /\ result.PB = (IF IsSkipped(row) THEN "-" ELSE is_pb(row.Part, planned_demand))

\* a flagged order of part A has been released from stock like its unflagged twin
C19_Witness ==
    /\ pc = "appended"
    /\ PbRowsOutside
    /\ result.PB = "PB"
    /\ result.Status = "Release"
    /\ Len(results) = 2
    /\ results[1] = "Hold"

\* C20 (safe_metric): the call returns metrics[key] when the key is present, the given
\* default when it is absent (0 when none was given), and leaves metrics as it was.
C20_SafeMetric ==
    pc = "returned" =>
        /\ call.key \in DOMAIN call.metrics => ret.value = call.metrics[call.key]
        /\ (call.key \notin DOMAIN call.metrics /\ call.given) => ret.value = call.default
        /\ (call.key \notin DOMAIN call.metrics /\ ~call.given) => ret.value = 0
        /\ ret.metrics = call.metrics

\* a key that the dict lacks was asked for with a default other than 0, the dict holding
\* another key
C20_Witness ==
    /\ pc = "returned"
    /\ call.key \notin DOMAIN call.metrics
    /\ call.metrics # <<>>
    /\ call.given /\ call.default = MaxMetric
    /\ ret.value = MaxMetric

SignedAvailable(p) == Get(df_stock, p, 0) - Get(committed_components, p, 0)

\* quantity the k-th structure row of the current order asks for
StructRequired(k) == (IF bom[k].QpAKind = "nan" THEN 1 ELSE bom[k].QpA) * row.Demand

\* C22 as stated (signed availability), in the archived copy of the engine: the first
\* order of a run is Held when a component's stock minus committed demand is below
\* the required quantity, and the reported shortfall is required minus that signed
\* quantity, never the one computed from max(0, stock - committed).
C22_SignedAvailability ==
    (pc = "appended" /\ Len(results) = 1 /\ result.Status # "Skipped" /\ bom # <<>>) =>
        \A k \in 1..Len(bom) :
            SignedAvailable(bom[k].Component) < StructRequired(k) =>
                /\ result.Status = "Hold"
                /\ \E d \in Details :
                     /\ d.part = bom[k].Component
                     /\ d.short = StructRequired(k) - SignedAvailable(bom[k].Component)

\* ------------------------------------------------------- status and shortage list
\* C23 (status and shortage list agree): a result that is not Skipped is Hold iff its
\* shortage list has an entry and Release iff it has none; the Shortages field of a
\* Released order reads "-".
C23_StatusMatchesShortages ==
    (pc = "appended" /\ result.Status # "Skipped") =>
        /\ result.Status = "Hold" <=> result.Shortages # <<>>
        /\ result.Status = "Release" <=> result.Shortages = <<>>
        /\ Len(result.Shortages) = Len(result.Components.details)
        /\ result.Status = "Release" => shortages_text(result.Shortages) = "-"
        /\ result.Status = "Hold" => shortages_text(result.Shortages) # "-"

\* after a Released order, an order is Held by nothing but a row that raised
C23_Witness ==
    /\ pc = "appended"
    /\ Len(results) = 2
    /\ results[1] = "Release"
    /\ result.Status = "Hold"
    /\ BadRows # {}
    /\ \A k \in 1..Len(bom) : ~RowFails(k)
    /\ shortages_text(result.Shortages) = "Component processing error"

\* ------------------------------------------------------- the two copies of the engine

\* C24 (engine copies equivalent): from the same ledger and the same tables, the Qt6
\* copy gives every order the order id, status and shortage list that the main copy
\* gives it and leaves the same used quantity for every part, so both produce the
\* same sequence of results and the same final ledger.
C24_CopiesEquivalent ==
    pc = "appended" =>
        \E q \in {(Qt6_ProcessRow(row, bom, stock, used_before, df_pos, labor_standards))} :
            /\ q.result.SO = result.SO
            /\ q.result.Status = result.Status
            /\ q.result.Shortages = result.Shortages
            /\ q.result.Components = result.Components
            /\ \A p \in LedgerKeys \cup DOMAIN q.used :
                  Get(q.used, p, 0) = Get(used_components, p, 0)

\* the second order of a run has a row that fails with a supply reference and a row
\* without quantity for a part whose ledger is overdrawn
C24_Witness ==
    /\ pc = "appended"
    /\ Len(results) = 2
    /\ result.Status = "Hold"
    /\ \E d \in Details : d.kind = "po"
    /\ \E k \in 1..Len(bom) : bom[k].QtyKind = "nan" /\ AvailableBefore(bom[k].Component) < 0

\* ------------------------------------------------------- ledger monotonicity

\* the status order o would get from ledger u
StatusFrom(o, u) ==
    ProcessRow(WithSO(o[1], 0), o[2], stock, u, df_pos, labor_standards).result.Status

RECURSIVE ScenarioLoop(_, _, _, _, _, _)
ScenarioLoop(frame, pd, acc, stk, pos, labor) ==
    IF frame = <<>> THEN acc
    ELSE LET out == process_order(Head(frame), pd, stk, acc.used, pos, labor)
         IN ScenarioLoop(Tail(frame), pd,
                         [results |-> Append(acc.results, out.result), used |-> out.used],
                         stk, pos, labor)

\* the ledger seeded, the frame filtered by the flags and sorted, then the loop
scenario_run(inc, strategy, frame, pd, stk, committed, pos, labor) ==
    LET sorted == sort_values(sort_values(filtered_df_main(frame, inc), strategy, labor),
                              strategy, labor)
        out == ScenarioLoop(sorted, pd, [results |-> <<>>, used |-> committed], stk, pos, labor)
    IN [seed |-> committed, used |-> out.used, results |-> out.results]

InitScenario ==
    /\ call \in [fn : {"process_single_scenario"}, include_kits : BOOLEAN,
                  include_instruments : BOOLEAN, include_virtuoso : BOOLEAN,
                  include_kit_samples : BOOLEAN]
    /\ df_main \in
          {SqlOrder({[SO |-> so, Part |-> a[so].Part, Planner |-> PLANNER_BUYER[a[so].Part],
                      StartDate |-> a[so].StartDate, Demand |-> a[so].Demand] :
                        so \in DOMAIN a}) :
              a \in UNION {[1..n -> [Part : Parts, StartDate : 1..MaxOrders,
                                     Demand : 1..MaxQty]] : n \in 0..MaxOrders}}
    /\ planned_demand \in SeqsUpTo([SO : 1..MaxOrders, Component : Parts, QtyKind : {"num"},
                                     Qty : 1..MaxQty], MaxBomRows)
    /\ stock \in [Parts -> 0..MaxQty]
    /\ committed_components = <<>>
    /\ df_pos = <<>>
    /\ labor_standards = [p \in Parts |-> 1]
    /\ used_components = <<>>
    /\ results = <<>>
    /\ row = NoRow
    /\ result = NoResult
    /\ bom = <<>>
    /\ released = [p \in Parts |-> 0]
    /\ used_before = <<>>
    /\ pc = "scenario"
    /\ all_strategy_results = <<>>
    /\ scenarios = <<>>
    /\ struct = <<>>
    /\ df_stock = <<>>
    /\ columns = {required_columns[i] : i \in 1..Len(required_columns)}
    /\ error = NoError
    /\ ret = NoRet
    /\ InitApp

\* a call whose filtered frame has rows: the loop runs and the scenario is returned
RunScenario ==
    /\ pc = "scenario"
    /\ filtered_df_main(df_main, call) # <<>>
    /\ \E s \in 1..Len(get_sorting_strategies) :
       \E run \in {scenario_run(call, get_sorting_strategies[s], df_main, planned_demand, stock,
                                committed_components, df_pos, labor_standards)} :
         /\ scenarios' = <<scenario_result(get_sorting_strategies[s], run)>>
         /\ results' = [i \in 1..Len(run.results) |-> run.results[i].Status]
         /\ used_before' = run.seed
         /\ used_components' = run.used
    /\ pc' = "done"
    /\ UNCHANGED <<appVars, inputVars, auxVars, row, result, bom, released, all_strategy_results>>

\* a call whose filtered frame is empty: the loop body never runs, pd.DataFrame([]) has no
\* 'Status' column and the first lookup of the summary raises
RunScenarioEmpty ==
    /\ pc = "scenario"
    /\ filtered_df_main(df_main, call) = <<>>
    /\ error' = [raised |-> TRUE, type |-> "KeyError", missing |-> <<>>]
    /\ pc' = "failed"
    /\ UNCHANGED <<appVars, inputVars, engineVars, searchVars, call, ret>>

NextScenario == RunScenario \/ RunScenarioEmpty

SpecScenario == InitScenario /\ [][NextScenario]_vars

\* ------------------------------------------------------- empty run

\* C26 (empty run): when no order of the demand relation matches the selected categories
\* the call returns normally, its metrics count 0 orders, 0 releasable, 0 held and
\* 0 skipped, and the ledger is the initial one.
C26_EmptyRun ==
    (pc # "scenario" /\ filtered_df_main(df_main, call) = <<>>) =>
        /\ pc = "done"
        /\ ~error.raised
        /\ Len(scenarios) = 1
        /\ \A k \in {"total_orders", "releasable_count", "held_count", "skipped_count"} :
              scenarios[1].metrics[k] = 0
        /\ used_components = committed_components

\* ------------------------------------------------------- category filter
\* the planner codes of the categories the call selects
SelectedPlanners(inc) ==
    (IF inc.include_kits THEN {"3001", "3801", "5001"} ELSE {})
      \cup (IF inc.include_instruments THEN {"3802", "3803", "3804", "3805"} ELSE {})
      \cup (IF inc.include_virtuoso THEN {"3806"} ELSE {})
      \cup (IF inc.include_kit_samples THEN {"KIT SAMPLES"} ELSE {})

\* C27 (category filter): a returned scenario has no record of an order whose planner is in
\* none of the selected categories, and its records and its ledger are those of the same
\* call on the demand relation without that order.
C27_CategoryFilter ==
    pc = "done" =>
        \E sc \in {scenarios[1]} :
        \E st \in {get_sorting_strategies[s] : s \in 1..Len(get_sorting_strategies)} :
        /\ st.name = sc.sorting_strategy
        /\ \A i \in 1..Len(df_main) :
            df_main[i].Planner \notin SelectedPlanners(call) =>
                /\ \A k \in 1..Len(sc.results_df) : sc.results_df[k].SO # df_main[i].SO
                /\ \E alt \in {scenario_run(call, st,
                                            SelectSeq(df_main, LAMBDA r : r.SO # df_main[i].SO),
                                            planned_demand, stock, committed_components, df_pos,
                                            labor_standards)} :
                      /\ alt.results = sc.results_df
                      /\ alt.used = used_components

\* instruments are not selected; the first order is an instrument whose planned demand
\* asks for the one unit of B in stock, the second is a kit B without planned demand that
\* needs that unit and is released
C27_Witness ==
    /\ pc = "done"
    /\ ~call.include_instruments
    /\ Len(df_main) = 2
    /\ df_main[1].Part = "A"
    /\ df_main[2].Part = "B"
    /\ df_main[2].Demand = 1
    /\ stock["B"] = 1
    /\ \E j \in 1..Len(planned_demand) :
          planned_demand[j].SO = df_main[1].SO /\ planned_demand[j].Component = "B"
    /\ \A j \in 1..Len(planned_demand) : planned_demand[j].SO # df_main[2].SO
    /\ results = <<"Release">>

\* ------------------------------------------------------- the Qt6 window and its worker
\* QThread.isRunning(): from start() until the thread has left run() and exited
isRunning(w) == w.at # "exited"

\* len(strategies) in Min/Max mode, 1 in standard mode
total_scenarios(w) == IF w.minmax_mode THEN Len(get_sorting_strategies) ELSE 1

\* signal.emit(...) from worker i: queued for the main thread, noted on the worker
Emit(i, signal) ==
    /\ events' = Append(events, [worker |-> i, signal |-> signal])
    /\ workers' = [workers EXCEPT ![i].emitted = Append(@, signal), ![i].at = "returned"]

\* mutant: no check for a running worker
start_processing_unguarded ==
    /\ process_btn
    /\ Len(workers) < MaxWorkers
    /\ \E mode \in BOOLEAN :
         workers' = Append(workers, [minmax_mode |-> mode, at |-> "run", scenario_num |-> 0,
                                     emitted |-> <<>>, handled |-> <<>>])
    /\ processing_worker' = Len(workers) + 1
    /\ process_btn' = FALSE
    /\ last_click' = "started"
    /\ UNCHANGED <<events>>
    /\ UNCHANGED <<inputVars, engineVars, searchVars, auxVars, trackerVars, pc>>

\* process_btn.clicked -> start_processing (a disabled button sends no click)
start_processing ==
    /\ process_btn
    /\ IF processing_worker # 0 /\ isRunning(workers[processing_worker])
       THEN /\ last_click' = "ignored"
            /\ UNCHANGED <<processing_worker, workers, process_btn, events>>
       ELSE /\ Len(workers) < MaxWorkers
            /\ \E mode \in BOOLEAN :
                 workers' = Append(workers, [minmax_mode |-> mode, at |-> "run",
                                             scenario_num |-> 0, emitted |-> <<>>,
                                             handled |-> <<>>])
            /\ processing_worker' = Len(workers) + 1
            /\ process_btn' = FALSE
            /\ last_click' = "started"
            /\ UNCHANGED <<events>>
    /\ UNCHANGED <<inputVars, engineVars, searchVars, auxVars, trackerVars, pc>>

\* mutant: the connection failure returns without a signal
WorkerConnectFail_silent ==
    /\ \E i \in 1..Len(workers) :
          workers[i].at = "run" /\ workers' = [workers EXCEPT ![i].at = "returned"]
    /\ UNCHANGED <<inputVars, engineVars, searchVars, auxVars, trackerVars, pc,
                   processing_worker, process_btn, last_click, events>>

\* run(): test_database_connection() fails, error_occurred is emitted, return
WorkerConnectFail ==
    /\ \E i \in 1..Len(workers) : workers[i].at = "run" /\ Emit(i, "error_occurred")
    /\ UNCHANGED <<inputVars, engineVars, searchVars, auxVars, trackerVars, pc,
                   processing_worker, process_btn, last_click>>

\* run(): the connection test succeeds, the scenarios begin
WorkerConnectOk ==
    /\ \E i \in 1..Len(workers) :
          workers[i].at = "run" /\ workers' = [workers EXCEPT ![i].at = "scenarios"]
    /\ UNCHANGED <<inputVars, engineVars, searchVars, auxVars, trackerVars, pc,
                   processing_worker, process_btn, last_click, events>>

\* run(): one process_single_scenario call returns
WorkerScenario ==
    /\ \E i \in 1..Len(workers) :
          /\ workers[i].at = "scenarios"
          /\ workers[i].scenario_num < total_scenarios(workers[i])
          /\ workers' = [workers EXCEPT ![i].scenario_num = @ + 1]
    /\ UNCHANGED <<inputVars, engineVars, searchVars, auxVars, trackerVars, pc,
                   processing_worker, process_btn, last_click, events>>

\* run(): a process_single_scenario call raises; "except Exception" emits error_occurred
WorkerScenarioRaises ==
    /\ \E i \in 1..Len(workers) :
          /\ workers[i].at = "scenarios"
          /\ workers[i].scenario_num < total_scenarios(workers[i])
          /\ Emit(i, "error_occurred")
    /\ UNCHANGED <<inputVars, engineVars, searchVars, auxVars, trackerVars, pc,
                   processing_worker, process_btn, last_click>>

\* run(): every scenario is done, the results are emitted with finished
WorkerFinish ==
    /\ \E i \in 1..Len(workers) :
          /\ workers[i].at = "scenarios"
          /\ workers[i].scenario_num = total_scenarios(workers[i])
          /\ Emit(i, "finished")
    /\ UNCHANGED <<inputVars, engineVars, searchVars, auxVars, trackerVars, pc,
                   processing_worker, process_btn, last_click>>

\* the thread leaves run() and exits
ThreadExit ==
    /\ \E i \in 1..Len(workers) :
          workers[i].at = "returned" /\ workers' = [workers EXCEPT ![i].at = "exited"]
    /\ UNCHANGED <<inputVars, engineVars, searchVars, auxVars, trackerVars, pc,
                   processing_worker, process_btn, last_click, events>>

\* the main thread runs the slot of the next queued signal: processing_finished or
\* processing_error, both of which enable the process button
HandleSignal ==
    /\ events # <<>>
    /\ events' = Tail(events)
    /\ workers' = [workers EXCEPT ![Head(events).worker].handled = Append(@, Head(events).signal)]
    /\ process_btn' = TRUE
    /\ UNCHANGED <<inputVars, engineVars, searchVars, auxVars, trackerVars, pc,
                   processing_worker, last_click>>

InitWindow ==
    /\ InitApp
    /\ InitAux
    /\ stock = <<>>
    /\ committed_components = <<>>
    /\ df_pos = <<>>
    /\ labor_standards = <<>>
    /\ df_main = <<>>
    /\ planned_demand = <<>>
    /\ struct = <<>>
    /\ df_stock = <<>>
    /\ used_components = <<>>
    /\ results = <<>>
    /\ row = NoRow
    /\ result = NoResult
    /\ bom = <<>>
    /\ released = [p \in Parts |-> 0]
    /\ used_before = <<>>
    /\ all_strategy_results = <<>>
    /\ scenarios = <<>>
    /\ pc = "window"

NextWindow ==
    \/ start_processing
    \/ WorkerConnectFail
    \/ WorkerConnectOk
    \/ WorkerScenario
    \/ WorkerScenarioRaises
    \/ WorkerFinish
    \/ ThreadExit
    \/ HandleSignal

SpecWindow == InitWindow /\ [][NextWindow]_vars

\* ------------------------------------------------------- single flight
\* C28 (single flight): a worker that is running is the window's current worker, so no
\* two workers run at a time and a running worker is never replaced; a call of
\* start_processing made while the current worker runs starts nothing.
C28_SingleFlight ==
    /\ \A i \in 1..Len(workers) : isRunning(workers[i]) => processing_worker = i
    /\ Cardinality({i \in 1..Len(workers) : isRunning(workers[i])}) <= 1
    /\ last_click = "ignored" => processing_worker # 0

\* a click arrived after the first worker's signal was handled and before its thread
\* exited, and was ignored
C28_Witness ==
    /\ last_click = "ignored"
    /\ processing_worker = 1
    /\ workers[1].at = "returned"
    /\ workers[1].handled # <<>>
    /\ process_btn

\* ------------------------------------------------------- terminal signal

\* C29 (terminal signal): a worker that has left run() has emitted exactly one terminal
\* signal, one that is still in run() none; once the signal of the current worker has
\* been handled the process button is enabled.
C29_OneTerminalSignal ==
    /\ \A i \in 1..Len(workers) :
          /\ workers[i].at \in {"returned", "exited"} =>
                /\ Len(workers[i].emitted) = 1
                /\ workers[i].emitted[1] \in {"finished", "error_occurred"}
          /\ workers[i].at \in {"run", "scenarios"} => workers[i].emitted = <<>>
          /\ Len(workers[i].handled) <= Len(workers[i].emitted)
    /\ (processing_worker # 0 /\ workers[processing_worker].handled # <<>>) => process_btn

\* the first worker failed to connect, the second ran every strategy and finished, and
\* both signals have been handled
C29_Witness ==
    /\ Len(workers) = 2
    /\ workers[1].handled = <<"error_occurred">>
    /\ workers[1].scenario_num = 0
    /\ workers[2].minmax_mode
    /\ workers[2].handled = <<"finished">>
    /\ process_btn

\* ------------------------------------------------------- PerformanceTracker
\* "if self.current_phase": neither None nor the empty string
PhaseSet(t) == t.current_phase # NoneVal /\ t.current_phase # ""

\* end_phase() at time now; "and self.phase_start_time": neither None nor 0.0
end_phase(t, now) ==
    IF PhaseSet(t) /\ t.phase_start_time # NoTime /\ t.phase_start_time # 0
    THEN [phases |-> Put(t.phases, t.current_phase,
                         Append(Get(t.phases, t.current_phase, <<>>), now - t.phase_start_time)),
          memory_usage |-> Append(t.memory_usage, t.current_phase \o "_end"),
          current_phase |-> NoneVal,
          phase_start_time |-> NoTime]
    ELSE t

\* mutant: the phase that is active is overwritten without being ended
start_phase_nested(t, phase_name, now) ==
    [t EXCEPT !.current_phase = phase_name,
              !.phase_start_time = now,
              !.memory_usage = Append(@, phase_name)]

\* start_phase(phase_name) at time now
start_phase(t, phase_name, now) ==
    [(IF PhaseSet(t) THEN end_phase(t, now) ELSE t)
        EXCEPT !.current_phase = phase_name,
               !.phase_start_time = now,
               !.memory_usage = Append(@, phase_name)]

\* cleanup() at time now
cleanup(t, now) == IF PhaseSet(t) THEN end_phase(t, now) ELSE t

\* @timing_decorator(phase_name): start_phase, the function, finally end_phase
timing_decorator(phase_name) ==
    <<[op |-> "start_phase", name |-> phase_name], [op |-> "end_phase", name |-> ""]>>

\* the tracker calls of a process_single_scenario call that returns normally
ScenarioTrackerCalls ==
    <<[op |-> "start_phase", name |-> "Total Processing"],
      [op |-> "start_phase", name |-> "Database Connection"],
      [op |-> "end_phase", name |-> ""]>>
      \o timing_decorator("Load Demand Data")
      \o timing_decorator("Load Planned Demand Data")
      \o timing_decorator("Load Component Demand Data")
      \o timing_decorator("Load IPIS Data")
      \o timing_decorator("Load Hours Data")
      \o timing_decorator("Load POs Data")
      \o timing_decorator("Build Stock Dictionary")
      \o <<[op |-> "start_phase", name |-> "Order Processing"],
           [op |-> "end_phase", name |-> ""],
           [op |-> "end_phase", name |-> ""]>>

\* a call c made at the clock's time; pos and base are those of the scenario under way
TrackerStep(c, free, pos, base) ==
    /\ performance_tracker' =
          CASE c.op = "start_phase" -> start_phase(performance_tracker, c.name, clock)
            [] c.op = "end_phase" -> end_phase(performance_tracker, clock)
            [] c.op = "cleanup" -> cleanup(performance_tracker, clock)
    /\ clock' = clock + 1
    /\ tracker_hist' = [op |-> c.op, name |-> c.name, before |-> performance_tracker,
                        calls |-> tracker_hist.calls + (IF free THEN 1 ELSE 0),
                        pos |-> pos, base |-> base]
    /\ UNCHANGED <<inputVars, engineVars, searchVars, auxVars, pc, processing_worker, workers,
                   process_btn, events, last_click>>

\* calls made before the scenario
StartPhase ==
    /\ tracker_hist.pos = 0
    /\ tracker_hist.calls < MaxTrackerCalls
    /\ \E n \in {"Total Processing", "Order Processing"} :
          TrackerStep([op |-> "start_phase", name |-> n], TRUE, 0, <<>>)

EndPhase ==
    /\ tracker_hist.pos = 0
    /\ tracker_hist.calls < MaxTrackerCalls
    /\ TrackerStep([op |-> "end_phase", name |-> ""], TRUE, 0, <<>>)

Cleanup ==
    /\ tracker_hist.pos = 0
    /\ tracker_hist.calls < MaxTrackerCalls
    /\ TrackerStep([op |-> "cleanup", name |-> ""], TRUE, 0, <<>>)

\* the next tracker call of process_single_scenario; the first one notes the durations
\* that belong to phases started before the scenario (a phase still active included)
ScenarioStep ==
    /\ tracker_hist.pos < Len(ScenarioTrackerCalls)
    /\ TrackerStep(ScenarioTrackerCalls[tracker_hist.pos + 1], FALSE, tracker_hist.pos + 1,
                   IF tracker_hist.pos = 0 THEN cleanup(performance_tracker, clock).phases
                   ELSE tracker_hist.base)

InitPhases ==
    /\ InitApp
    /\ InitAux
    /\ stock = <<>>
    /\ committed_components = <<>>
    /\ df_pos = <<>>
    /\ labor_standards = <<>>
    /\ df_main = <<>>
    /\ planned_demand = <<>>
    /\ struct = <<>>
    /\ df_stock = <<>>
    /\ used_components = <<>>
    /\ results = <<>>
    /\ row = NoRow
    /\ result = NoResult
    /\ bom = <<>>
    /\ released = [p \in Parts |-> 0]
    /\ used_before = <<>>
    /\ all_strategy_results = <<>>
    /\ scenarios = <<>>
    /\ pc = "tracker"

NextPhases == StartPhase \/ EndPhase \/ Cleanup \/ ScenarioStep

SpecPhases == InitPhases /\ [][NextPhases]_vars

====
